---- MODULE Spec2Model ----
(***************************************************************************)
(* A model of pycraft: the per-server supervisor (server.py), the shared   *)
(* sched.scheduler it enters its events in, the scheduler thread and the   *)
(* stdin listener thread (stdinListener.py) that call into it, and the     *)
(* operating system's view of the server processes.                        *)
(*                                                                         *)
(* The specifications share the definitions:                               *)
(*   Spec      the supervisor of one server, call by call.  Every Server   *)
(*             method runs inside "with self._lock", so a call is one      *)
(*             action: it takes the server's state and what the operating  *)
(*             system shows it at each look, and leaves the new state and  *)
(*             a log of what it did.  Time is relative: a queued event     *)
(*             carries the seconds until it is due, a process its age, and *)
(*             Advance (the scheduler's sleep) moves both.                 *)
(*   SpecSched _scheduleRestarts as a function of uptime, restart period   *)
(*             and the three conditions it tests.                          *)
(*   SpecLock  two supervisors and the two threads statement by statement: *)
(*             locks held, members accessed, queue operations in progress. *)
(*             SpecLockFair adds that statements terminate and a lock that *)
(*             is free again and again is granted.                         *)
(*   SpecProbe one tick for every sequence of probe results.               *)
(*   SpecCull  one tick for every set of duplicate processes.              *)
(*   SpecPair  _scheduleRestarts followed by _cancelRestartEvents.         *)
(*   SpecQueue the scheduler's queue with the handles in order of entry.   *)
(*   SpecReply isResponsive as a function of the bytes the socket returns. *)
(*   SpecBuild Server.__init__ as a function of configuration and          *)
(*             processes found.                                            *)
(*   SpecWarn  the text of a restart warning.                              *)
(*   SpecChat  the log transcriber (chatlog.py) over file-system events.   *)
(*   SpecExit  the signal handler (pycraft.py), the console loop and the   *)
(*             main thread at shutdown.                                    *)
(*   SpecLine  one line typed at the console (stdinListener.py): the verb, *)
(*             the lookup of the nick and the method called.               *)
(***************************************************************************)
EXTENDS Integers, Sequences, FiniteSets, TLC

VARIABLES
    config,         \* nick -> configuration dictionary (config.py), immutable
    online,         \* nick -> Server._online, the desired state
    restartEvents,  \* nick -> Server._restartEvents, sequence of event handles
    procs,          \* nick -> set of running processes matching SERVER_JAR
    launching,      \* nick -> a screen session was started whose process is yet to appear
    queue,          \* Server.scheduler's queue: a set of events
    firing,         \* the event run() has popped and whose action it is about to call
    dead,           \* thread -> TRUE once an exception has ended the thread
    ran,            \* the method call that has just returned, with its log
    lockOwner,      \* nick -> thread holding Server._lock, or "none"
    lockCount,      \* nick -> recursion level of the RLock
    thr,            \* thread -> its place in a method (lock-level specifications)
    qBusy,          \* threads that are in the middle of a scheduler-queue operation
    fin,            \* inputs of the function under test (function-level specifications)
    fout            \* its result

vars == <<config, online, restartEvents, procs, launching, queue, firing, dead, ran,
          lockOwner, lockCount, thr, qBusy, fin, fout>>

(* the variables only the lock-level and function-level specifications use *)
aux == <<lockOwner, lockCount, thr, qBusy, fin, fout>>

(* ... and the ones they leave alone *)
main == <<config, online, restartEvents, procs, launching, queue, firing, dead, ran>>

----------------------------------------------------------------------------
(* Program constants *)

CheckPeriod == 60
StopPolls == 12
CullPolls == 30
ProbeRetries == 10
ProbeFailLimit == 3
WarnLead == 600
StartupTime == 30

(* Bounds of the model *)

MaxProcs == 2
AgeCap == 60
MaxUptime == 1500
MaxCull == 3
MaxEnter == 4
MaxReply == 9
MaxMinutes == 120
MaxLines == 3
MaxMoves == 2

Threads == {"main", "console"}

Range(f) == {f[i] : i \in DOMAIN f}
Min(S) == CHOOSE x \in S : \A y \in S : x <= y
Max(S) == CHOOSE x \in S : \A y \in S : x >= y

----------------------------------------------------------------------------
(* Configuration dictionaries: the keys of config.py the supervisor reads. *)

Cfg(start, restarts, resp, rtime, multi) ==
    [START_SERVER |-> start, ENABLE_AUTOMATED_RESTARTS |-> restarts,
     ENABLE_RESPONSIVENESS_CHECK |-> resp, RESTART_TIME |-> rtime,
     STARTUP_TIME |-> StartupTime, MULTIUSER_ENABLED |-> multi]

ConfigChoices ==
    { Cfg(TRUE, TRUE, TRUE, 120, TRUE),
      Cfg(FALSE, TRUE, FALSE, 660, FALSE),
      Cfg(TRUE, FALSE, TRUE, 660, FALSE) }

----------------------------------------------------------------------------
(* The restart group _scheduleRestarts enters for a process of age upTime  *)
(* under restart period rtime: delay, action and argument of each event,   *)
(* in the order they are entered.                                          *)

Ev(d, act, arg) == [d |-> d, act |-> act, arg |-> arg]

(* a variant without the overdue case *)
RestartPlanNoFloor(upTime, rtime) ==
    << Ev(rtime - upTime - 10 * 60, "warn", 10), Ev(rtime - upTime - 5 * 60, "warn", 5),
       Ev(rtime - upTime - 1 * 60, "warn", 1), Ev(rtime - upTime, "restart", 0) >>

(* a variant that restarts an overdue server at once *)
RestartPlanAtOnce(upTime, rtime) ==
    IF upTime >= rtime - 10 * 60
    THEN << Ev(0 * 60, "warn", 10), Ev(0 * 60, "warn", 5),
            Ev(0 * 60, "warn", 1), Ev(0 * 60, "restart", 0) >>
    ELSE RestartPlanNoFloor(upTime, rtime)

(* a variant that always takes the overdue case *)
RestartPlanAlwaysOverdue(upTime, rtime) ==
    << Ev(0 * 60, "warn", 10), Ev(5 * 60, "warn", 5),
       Ev(9 * 60, "warn", 1), Ev(10 * 60, "restart", 0) >>

RestartPlan(upTime, rtime) ==
    IF upTime >= rtime - 10 * 60
    THEN << Ev(0 * 60, "warn", 10), Ev(5 * 60, "warn", 5),
            Ev(9 * 60, "warn", 1), Ev(10 * 60, "restart", 0) >>
    ELSE << Ev(rtime - upTime - 10 * 60, "warn", 10),
            Ev(rtime - upTime - 5 * 60, "warn", 5),
            Ev(rtime - upTime - 1 * 60, "warn", 1),
            Ev(rtime - upTime, "restart", 0) >>

----------------------------------------------------------------------------
(* The operating system: processes whose command line matches SERVER_JAR.  *)
(* A process is [pid, ct, age]: ct ranks the creation times (larger is     *)
(* newer), age is the uptime in seconds, saturating at AgeCap, k tells     *)
(* whether SIGKILL was sent to it (1) and whether a listing has shown it   *)
(* since (2): it is gone before the listing after that.                    *)

PidsOf(P) == {p.pid : p \in P}

ProcOf(P, pid) == CHOOSE p \in P : p.pid = pid

Renorm(P) == {[p EXCEPT !.ct = Cardinality({q \in P : q.ct <= p.ct})] : p \in P}

Aged(P, d) == {[p EXCEPT !.age = IF p.age + d > AgeCap THEN AgeCap ELSE p.age + d] : p \in P}

FreshPid(used) ==
    CHOOSE i \in 1..(Cardinality(used) + 1) : i \notin used /\ \A j \in 1..(i - 1) : j \in used

RECURSIVE Births(_, _, _)
(* n new processes, each the newest, none with a PID a list still names *)
Births(P, n, snap) ==
    IF n = 0 THEN P
    ELSE Births(P \cup {[pid |-> FreshPid(PidsOf(P) \cup snap),
                         ct |-> Cardinality(P) + 1, age |-> 0, k |-> 0]},
                n - 1, snap)

RECURSIVE SeqOf(_)
(* pgrep lists the PIDs in ascending order *)
SeqOf(S) == IF S = {} THEN << >> ELSE << Min(S) >> \o SeqOf(S \ {Min(S)})

NoUptime == -1

----------------------------------------------------------------------------
(* sched.scheduler: enter and cancel on the shared queue.  An event is     *)
(* [id, t, prio, act, arg, s]; its id is the handle enter returns.         *)

NextId(used) ==
    CHOOSE i \in 1..(Cardinality(used) + 1) : i \notin used /\ \A j \in 1..(i - 1) : j \in used

Event(id, d, act, arg, s) ==
    [id |-> id, t |-> d, prio |-> 1, act |-> act, arg |-> arg, s |-> s]

NoEvent == Event(0, 0, "none", 0, "none")

QIds(q) == {e.id : e \in q}

enter(q, held, d, act, arg, s) ==
    Event(NextId(QIds(q) \cup held), d, act, arg, s)

(* a variant that leaves the event queued *)
cancelNothing(q, id) == q

cancel(q, id) == {e \in q : e.id # id}

RECURSIVE EnterPlan(_, _, _, _, _)
(* Enter the events of plan in order; the result is the queue and the      *)
(* handles appended to _restartEvents.  held: the handles other lists hold *)
EnterPlan(q, held, hs, plan, s) ==
    IF plan = << >> THEN [q |-> q, hs |-> hs]
    ELSE LET e == enter(q, held \cup Range(hs), Head(plan).d, Head(plan).act,
                        Head(plan).arg, s)
         IN EnterPlan(q \cup {e}, held, Append(hs, e.id), Tail(plan), s)

RECURSIVE CancelAll(_, _)
(* _cancelRestartEvents: cancel each handle; one no longer queued is skipped *)
CancelAll(q, hs) ==
    IF hs = << >> THEN q ELSE CancelAll(cancel(q, Head(hs)), Tail(hs))

(* _scheduleCheck: one event calling _check, at once or in 60 seconds *)
CheckDelay(immediate) == IF immediate THEN 0 ELSE CheckPeriod

(* a variant that tests nothing *)
MayScheduleAlways(cfg, on, revs) == TRUE

(* a variant that forgets the configuration flag *)
MayScheduleAnyConfig(cfg, on, revs) == Len(revs) = 0 /\ on

(* The condition under which _scheduleRestarts does anything at all *)
MaySchedule(cfg, on, revs) ==
    cfg.ENABLE_AUTOMATED_RESTARTS /\ Len(revs) = 0 /\ on

(* _scheduleRestarts as a function of what it reads: the queue and the     *)
(* restart group it leaves.                                                *)
ScheduleRestarts(q, held, cfg, on, revs, upTime, s) ==
    IF MaySchedule(cfg, on, revs) /\ upTime # NoUptime
    THEN EnterPlan(q, held, revs, RestartPlan(upTime, cfg.RESTART_TIME), s)
    ELSE [q |-> q, hs |-> revs]

(* The events that run() may fire next: due, and least in (time, priority) *)
Before(e, f) == e.t < f.t \/ (e.t = f.t /\ e.prio <= f.prio)

Due(q) == {e \in q : e.t <= 0 /\ \A f \in q : Before(e, f)}

----------------------------------------------------------------------------
(* A call of a Server method.  A world w is the state the call works on:   *)
(* the server's members (on, revs), the scheduler queue q, the processes   *)
(* P, the last PID list (snap) and uptime (up) it obtained, the seconds it *)
(* has slept (el), a log of what it did, and exc once an exception is      *)
(* propagating.  A method maps a world to the set of       *)
(* worlds it can end in.                                                   *)

World(s, cfg, on, revs, q, P, la, held) ==
    [s |-> s, cfg |-> cfg, on |-> on, revs |-> revs, q |-> q, P |-> P, la |-> la,
     held |-> held, snap |-> << >>, looked |-> FALSE, up |-> NoUptime, el |-> 0,
     log |-> << >>, exc |-> FALSE]

L(w, k, n) == [w EXCEPT !.log = Append(@, [k |-> k, n |-> n])]

(* one entry for each element of ns, in order *)
LogEach(w, k, ns) == [w EXCEPT !.log = @ \o [i \in 1..Len(ns) |-> [k |-> k, n |-> ns[i]]]]

Has(log, k) == \E i \in DOMAIN log : log[i].k = k

(* An exception leaves the method and every caller: no later statement runs *)
Raise(w, what) == [L(w, what, 0) EXCEPT !.exc = TRUE]

Bind(S, F(_)) == UNION {IF w.exc THEN {w} ELSE F(w) : w \in S}

Shift(q, d) == {[e EXCEPT !.t = @ - d] : e \in q}

(* time.sleep(d) inside a method adds to the time the call has taken; the  *)
(* scheduler's clock is read again only when the call has returned, and    *)
(* the model lets it stand during the call.                                *)
Sleep(w, d) == [w EXCEPT !.el = @ + d]

(* The member writes, each followed by a record of the two members *)
Members(w) == L(w, "members", 2 * Len(w.revs) + (IF w.on THEN 1 ELSE 0))

SetOnline(w, b) == Members([w EXCEPT !.on = b])

(* What the operating system may have done since the call last looked:     *)
(* any of the processes has exited, the session started last has brought   *)
(* up its process.  What it did before the call's first look are steps of  *)
(* their own (ProcExit, ProcAppear, ProcSpawn).                            *)
Env(w) ==
    LET live == {p \in w.P : p.k # 2}
        nl == IF w.la THEN {0, 1} ELSE {0}
        ch == {c \in (SUBSET live) \X nl :
                  c[2] = 0 \/ Cardinality(live \ c[1]) + c[2] <= MaxProcs}
    IN {[w EXCEPT !.P = Births(Renorm(live \ c[1]), c[2], Range(w.snap)),
                  !.la = IF c[2] = 1 THEN FALSE ELSE @,
                  !.log = IF c[2] = 1 THEN Append(@, [k |-> "born", n |-> 0]) ELSE @]
        : c \in ch}

(* Between the polls of a wait loop nothing but the loop's subject moves *)
Still(w) == {[w EXCEPT !.P = Renorm({p \in @ : p.k # 2})]}

(* _getPIDs: pgrep -f SERVER_JAR *)
Listing(v) ==
    [v EXCEPT !.snap = SeqOf(PidsOf(v.P)), !.looked = TRUE,
              !.P = {[p EXCEPT !.k = IF @ = 1 THEN 2 ELSE @] : p \in @}]

getPIDs(w) == {Listing(v) : v \in IF w.looked THEN Env(w) ELSE Still(w)}

getPIDsStill(w) == {Listing(v) : v \in Still(w)}

(* getUptime: the age of the first PID listed; psutil.Process raises       *)
(* NoSuchProcess when that process has exited since the listing.           *)
getUptime(w) ==
    Bind(getPIDs(w), LAMBDA v :
        IF ~v.on \/ Len(v.snap) = 0
        THEN {[v EXCEPT !.up = NoUptime]}
        ELSE LET p == ProcOf(v.P, v.snap[1])
             IN {[v EXCEPT !.up = p.age],
                 Raise([v EXCEPT !.P = Renorm(@ \ {p})], "NoSuchProcess")})

(* sendCommand: a second's pause, then the keystrokes into the session *)
sendCommand(w, k) == L(Sleep(w, 1), k, 0)

scheduleCheck(w, immediate) ==
    L([w EXCEPT !.q = @ \cup {enter(w.q, w.held \cup Range(w.revs),
                                    CheckDelay(immediate), "check", 0, w.s)}],
      "rearm", CheckDelay(immediate))

scheduleRestarts(w) ==
    IF MaySchedule(w.cfg, w.on, w.revs)
    THEN Bind(getUptime(w), LAMBDA v :
            IF v.up = NoUptime THEN {v}
            ELSE LET r == ScheduleRestarts(v.q, v.held, v.cfg, v.on, v.revs, v.up, v.s)
                 IN {Members(L([v EXCEPT !.q = r.q, !.revs = r.hs], "sched", v.up))})
    ELSE {w}

cancelRestartEvents(w) ==
    Members(L([w EXCEPT !.q = CancelAll(@, w.revs), !.revs = << >>], "cancel", 0))

(* a variant that gives up without the signal *)
killNothing(w) == w

(* _killServer: pkill -SIGKILL -f SERVER_JAR *)
killServer(w) ==
    L([w EXCEPT !.P = {[p EXCEPT !.k = IF @ = 0 THEN 1 ELSE @] : p \in @}], "sigkill", 0)

(* The environment moves before the first and the last poll of a loop *)
EnvAt(i, n) == i = 1 \/ i = n

RECURSIVE StopPoll(_, _)
(* the loop of stop(): poll i of StopPolls, five seconds apart *)
StopPoll(w, i) ==
    IF i > StopPolls THEN {killServer(L(w, "polls", i - 1))}
    ELSE Bind(IF EnvAt(i, StopPolls) THEN getPIDs(Sleep(w, 5))
              ELSE getPIDsStill(Sleep(w, 5)),
              LAMBDA v : IF Len(v.snap) = 0 THEN {L(v, "gone", i)}
                         ELSE StopPoll(v, i + 1))

(* a variant without the test of the desired state *)
stopUnguarded(w) ==
    LET w0 == L(w, "call:stop", IF w.on THEN 1 ELSE 0)
    IN {IF v.exc THEN v ELSE L(v, "ret:stop", Cardinality(v.P))
          : v \in StopPoll(SetOnline(sendCommand(cancelRestartEvents(w0), "stuff:stop"),
                                     FALSE), 1)}

(* a variant that marks the supervisor Offline when the polls are over *)
stopMarkingOfflineLast(w) ==
    LET w0 == L(w, "call:stop", IF w.on THEN 1 ELSE 0)
        Ret(S) == {IF v.exc THEN v ELSE L(v, "ret:stop", Cardinality(v.P)) : v \in S}
    IN IF w0.on
       THEN Ret({SetOnline(v, FALSE)
                   : v \in StopPoll(sendCommand(cancelRestartEvents(w0), "stuff:stop"), 1)})
       ELSE Ret({L(w0, "noop:stop", 0)})

stop(w) ==
    LET w0 == L(w, "call:stop", IF w.on THEN 1 ELSE 0)
        Ret(S) == {IF v.exc THEN v ELSE L(v, "ret:stop", Cardinality(v.P)) : v \in S}
    IN IF w0.on
       THEN Ret(StopPoll(SetOnline(sendCommand(cancelRestartEvents(w0), "stuff:stop"),
                                   FALSE), 1))
       ELSE Ret({L(w0, "noop:stop", 0)})

(* a variant without the test of the desired state and the process list *)
startUnguarded(w) ==
    LET w0 == L(w, "call:start", IF w.on THEN 1 ELSE 0)
        v1 == [L(L(w0, "quit", 0), "launch", 0) EXCEPT !.la = TRUE]
    IN {IF v.exc THEN v ELSE L(v, "ret:start", 0)
          : v \in scheduleRestarts(Sleep(SetOnline(v1, TRUE), 5))}

start(w) ==
    LET w0 == L(w, "call:start", IF w.on THEN 1 ELSE 0)
        Ret(S) == {IF v.exc THEN v ELSE L(v, "ret:start", 0) : v \in S}
        Launch(v) ==
            LET v1 == [L(L(v, "quit", 0), "launch", 0) EXCEPT !.la = TRUE]
                v2 == IF v.cfg.MULTIUSER_ENABLED THEN L(v1, "multiuser", 0) ELSE v1
            IN scheduleRestarts(Sleep(SetOnline(v2, TRUE), 5))
    IN IF ~w0.on
       THEN Ret(Bind(getPIDs(w0), LAMBDA v :
                    IF Len(v.snap) = 0 THEN Launch(v) ELSE {L(v, "noop:start", 1)}))
       ELSE Ret({L(w0, "noop:start", 0)})

restart(w) ==
    LET Ret(S) == {IF v.exc THEN v ELSE L(v, "ret:restart", 0) : v \in S}
        Start(v) == start(v)
    IN Ret(Bind(stop(sendCommand(L(w, "call:restart", 0), "stuff:say")), Start))

restartWarning(w, minutes) == {sendCommand(L(w, "call:warn", minutes), "stuff:say")}

----------------------------------------------------------------------------
(* isResponsive: "T" the reply is well formed, "F" one of the caught       *)
(* errors (refused, timed out, wrong magic, short reply), "X" the reply    *)
(* does not decode as UTF-16, which the except clause does not catch.      *)

ProbeResults == {"T", "F", "X"}

Script(a, n, b) == [i \in 1..ProbeRetries |-> IF i <= n THEN a ELSE b]

(* The follow-up probes' results, in order; a loop reads as many as it needs *)
ProbeScripts ==
    { Script("F", ProbeRetries, "F"), Script("T", ProbeRetries, "T"),
      Script("F", ProbeFailLimit - 1, "T"), Script("F", 1, "X") }

isResponsive(w, r) ==
    IF r = "X" THEN Raise(w, "UnicodeDecodeError")
    ELSE L(w, "probe", IF r = "T" THEN 1 ELSE 0)

(* a variant that gives up on the server at the first failed follow-up *)
UnresponsiveAtOnce(fails) == fails >= 1

(* prevResults.count(False) >= 3 *)
Unresponsive(fails) == fails >= ProbeFailLimit

RECURSIVE ProbeLoop(_, _, _, _)
(* the loop of _check after a failed probe: prevResults holds fails Falses *)
ProbeLoop(w, sc, i, fails) ==
    IF i > ProbeRetries THEN {w}
    ELSE LET v == isResponsive(Sleep(w, 5), sc[i])
             f == fails + (IF sc[i] = "F" THEN 1 ELSE 0)
         IN IF v.exc THEN {v}
            ELSE IF Unresponsive(f) THEN restart(L(v, "unresponsive", i))
            ELSE ProbeLoop(v, sc, i + 1, f)

(* a variant that repeats the probe whatever the first result *)
ProbeWithRepeats(w, r, sc) ==
    LET v == isResponsive(w, r)
    IN IF r = "X" THEN {v} ELSE ProbeLoop(v, sc, 1, 0)

(* the probes of one tick: the first with result r, the follow-ups reading sc *)
ProbeWith(w, r, sc) ==
    LET v == isResponsive(w, r)
    IN IF r # "F" THEN {v} ELSE ProbeLoop(v, sc, 1, 0)

ProbeRuns == ProbeResults \X ProbeScripts

Probe(w, runs) == UNION {ProbeWith(w, x[1], x[2]) : x \in runs}

RECURSIVE NewestFrom(_, _, _, _)
(* the scan of _check for the newest process: a later one replaces the     *)
(* candidate only when its creation time is strictly greater               *)
NewestFrom(P, snap, i, best) ==
    IF i > Len(snap) THEN best
    ELSE NewestFrom(P, snap, i + 1,
                    IF ProcOf(P, snap[i]).ct > best.ct THEN ProcOf(P, snap[i]) ELSE best)

(* a variant that takes the first process listed *)
NewestIsFirstListed(P, snap) == ProcOf(P, snap[1])

Newest(P, snap) == NewestFrom(P, snap, 1, ProcOf(P, snap[1]))

(* One round of the culling loop: terminate() the newest, wait up to       *)
(* CullPolls seconds for it, kill() it if it still runs, wait five seconds *)
(* and list again.  psutil raises NoSuchProcess for a process that is gone *)
(* when it is looked up or signalled.                                      *)
CullOne(w) ==
    LET listed == {p \in w.P : p.pid \in Range(w.snap)}
        gone == {Raise([w EXCEPT !.P = Renorm(@ \ {p})], "NoSuchProcess") : p \in listed}
        n == Newest(w.P, w.snap)
        w1 == L(LogEach(w, "seen", w.snap), "terminate", n.pid)
        out(v) == [v EXCEPT !.P = Renorm({p \in @ : p.pid # n.pid})]
        Polled(v, i) == L(Sleep(v, i), "waited", i)
        early == out(Polled(w1, 1))
        late == out(Polled(w1, CullPolls))
        killed == out(L(Polled(w1, CullPolls), "kill", n.pid))
        raced == Raise(out(Polled(w1, CullPolls)), "NoSuchProcess")
    IN gone \cup {raced} \cup
       UNION {getPIDs(Sleep(v, 5)) : v \in {early, late, killed}}

RECURSIVE CullLoop(_)
(* a variant that culls only for a supervisor desired Online *)
CullLoopWhenOnline(w) ==
    IF w.on /\ Len(w.snap) > 1
    THEN Bind(CullOne(L(w, "multiple", Len(w.snap))), LAMBDA v : CullLoop(v))
    ELSE {w}

CullLoop(w) ==
    IF Len(w.snap) > 1 THEN Bind(CullOne(L(w, "multiple", Len(w.snap))), LAMBDA v : CullLoop(v))
    ELSE {w}

(* _check after the culling loop: desired state against the PID list *)
CompareWith(w, runs) ==
    IF w.on
    THEN IF Len(w.snap) = 0 THEN start(L(w, "br:on0", 0))
         ELSE IF Len(w.snap) = 1
         THEN IF w.cfg.ENABLE_RESPONSIVENESS_CHECK
              THEN Bind(getUptime(L(w, "br:on1", 1)), LAMBDA v :
                       IF v.up > v.cfg.STARTUP_TIME THEN Probe(v, runs) ELSE {v})
              ELSE {L(w, "br:on1", 0)}
         ELSE {w}
    ELSE IF Len(w.snap) > 0 THEN stop(L(w, "br:off1", Len(w.snap)))
         ELSE {L(w, "br:off0", 0)}

Compare(w) == CompareWith(w, ProbeRuns)

(* _check, the probes answering as one of runs *)
checkWith(w, runs) ==
    Bind(Bind(Bind(getPIDs(L(w, "call:check", 0)), CullLoop),
              LAMBDA v : CompareWith(v, runs)),
         LAMBDA v : {L(scheduleCheck(v, FALSE), "ret:check", 0)})

check(w) == checkWith(w, ProbeRuns)

----------------------------------------------------------------------------
(* Construction: Server.__init__, for the one server of the configuration. *)

Servers == {"test"}

InitAges == {0, AgeCap}

InitProcSets ==
    {Renorm({[pid |-> i, ct |-> MaxProcs + 1 - i, age |-> a[i], k |-> 0] : i \in 1..n})
        : n \in 0..MaxProcs, a \in [1..MaxProcs -> InitAges]}

(* a variant that takes the desired state from the configuration alone *)
constructAsConfigured(w) ==
    Bind({scheduleCheck(Members([SetOnline(w, w.cfg.START_SERVER) EXCEPT !.revs = << >>]),
                        TRUE)},
         scheduleRestarts)

construct(w) ==
    Bind(Bind(IF w.cfg.START_SERVER THEN {SetOnline(w, TRUE)}
              ELSE {SetOnline(v, Len(v.snap) > 0) : v \in getPIDs(SetOnline(w, FALSE))},
              LAMBDA v : {scheduleCheck(Members([v EXCEPT !.revs = << >>]), TRUE)}),
         scheduleRestarts)

Built == UNION {{w \in construct(World("test", c, FALSE, << >>, {}, P, FALSE, {}))
                   : ~w.exc} : c \in ConfigChoices, P \in InitProcSets}

NoRan == [by |-> "none", op |-> "none", s |-> "none", on |-> FALSE, np |-> 0,
          el |-> 0, log |-> << >>, exc |-> FALSE]

AuxIdle ==
    /\ lockOwner = [s \in Servers |-> "none"]
    /\ lockCount = [s \in Servers |-> 0]
    /\ thr = [t \in Threads |-> "idle"]
    /\ qBusy = {}
    /\ fin = << >>
    /\ fout = << >>

Init ==
    /\ \E w \in Built :
          /\ config = [s \in Servers |-> w.cfg]
          /\ online = [s \in Servers |-> w.on]
          /\ restartEvents = [s \in Servers |-> w.revs]
          /\ procs = [s \in Servers |-> w.P]
          /\ launching = [s \in Servers |-> w.la]
          /\ queue = w.q
    /\ firing = NoEvent
    /\ dead = [t \in Threads |-> FALSE]
    /\ ran = NoRan
    /\ AuxIdle

----------------------------------------------------------------------------
(* The threads.  "main" is in Server.scheduler.run(): it sleeps until the  *)
(* first event is due, pops it and calls its action.  "console" is the     *)
(* stdin listener, calling a method for each command read.                 *)

Quiet == ran = NoRan

OtherHeld(s) ==
    UNION {Range(restartEvents[o]) : o \in Servers \ {s}}
        \cup (IF firing = NoEvent THEN {} ELSE {firing.id})

W0(s) ==
    World(s, config[s], online[s], restartEvents[s], queue, procs[s], launching[s],
          OtherHeld(s))

(* A method call by thread by on server s ends in world w *)
Returns(by, op, s, w) ==
    /\ online' = [online EXCEPT ![s] = w.on]
    /\ restartEvents' = [restartEvents EXCEPT ![s] = w.revs]
    /\ procs' = [procs EXCEPT ![s] = w.P]
    /\ launching' = [launching EXCEPT ![s] = w.la]
    /\ queue' = w.q
    /\ dead' = [dead EXCEPT ![by] = w.exc]
    /\ ran' = [by |-> by, op |-> op, s |-> s, on |-> online[s],
               np |-> Cardinality(procs[s]), el |-> w.el, log |-> w.log,
               exc |-> w.exc]
    /\ UNCHANGED <<config, aux>>

(* the log of the call has been looked at *)
Finish ==
    /\ ~Quiet
    /\ ran' = NoRan
    /\ UNCHANGED <<config, online, restartEvents, procs, launching, queue, firing,
                   dead, aux>>

(* run() sleeps until the first event is due *)
Advance ==
    /\ Quiet /\ ~dead["main"] /\ firing = NoEvent /\ queue # {}
    /\ LET d == Min({e.t : e \in queue})
       IN /\ d > 0
          /\ queue' = Shift(queue, d)
          /\ procs' = [s \in Servers |-> Aged(procs[s], d)]
    /\ UNCHANGED <<config, online, restartEvents, launching, firing, dead, ran, aux>>

(* run() pops a due event *)
Fire(e) ==
    /\ Quiet /\ ~dead["main"] /\ firing = NoEvent
    /\ e \in Due(queue)
    /\ queue' = queue \ {e}
    /\ firing' = e
    /\ UNCHANGED <<config, online, restartEvents, procs, launching, dead, ran, aux>>

(* ... and calls its action *)
RunCheck ==
    /\ Quiet /\ firing.act = "check"
    /\ \E w \in check(W0(firing.s)) : Returns("main", "check", firing.s, w)
    /\ firing' = NoEvent

RunWarn ==
    /\ Quiet /\ firing.act = "warn"
    /\ \E w \in restartWarning(W0(firing.s), firing.arg) :
          Returns("main", "warn", firing.s, w)
    /\ firing' = NoEvent

RunRestart ==
    /\ Quiet /\ firing.act = "restart"
    /\ \E w \in restart(W0(firing.s)) : Returns("main", "restart", firing.s, w)
    /\ firing' = NoEvent

(* A server process exits *)
ProcExit(s, p) ==
    /\ Quiet /\ p \in procs[s]
    /\ procs' = [procs EXCEPT ![s] = Renorm(@ \ {p})]
    /\ UNCHANGED <<config, online, restartEvents, launching, queue, firing, dead, ran,
                   aux>>

(* The session started last brings up its process *)
ProcAppear(s) ==
    /\ Quiet /\ launching[s] /\ Cardinality(procs[s]) < MaxProcs
    /\ procs' = [procs EXCEPT ![s] = Births(@, 1, {})]
    /\ launching' = [launching EXCEPT ![s] = FALSE]
    /\ UNCHANGED <<config, online, restartEvents, queue, firing, dead, ran, aux>>

(* Somebody starts the server jar by hand *)
ProcSpawn(s) ==
    /\ Quiet /\ Cardinality(procs[s]) < MaxProcs
    /\ procs' = [procs EXCEPT ![s] = Births(@, 1, {})]
    /\ UNCHANGED <<config, online, restartEvents, launching, queue, firing, dead, ran,
                   aux>>

(* The console commands start, stop and restart *)
CanType == Quiet /\ ~dead["console"]

ConsoleStart(s) ==
    /\ CanType
    /\ \E w \in start(W0(s)) : Returns("console", "start", s, w)
    /\ UNCHANGED firing

ConsoleStop(s) ==
    /\ CanType
    /\ \E w \in stop(W0(s)) : Returns("console", "stop", s, w)
    /\ UNCHANGED firing

ConsoleRestart(s) ==
    /\ CanType
    /\ \E w \in restart(W0(s)) : Returns("console", "restart", s, w)
    /\ UNCHANGED firing

Next ==
    \/ Finish
    \/ Advance
    \/ \E e \in queue : Fire(e)
    \/ RunCheck
    \/ RunWarn
    \/ RunRestart
    \/ \E s \in Servers : \E p \in procs[s] : ProcExit(s, p)
    \/ \E s \in Servers : ProcAppear(s)
    \/ \E s \in Servers : ProcSpawn(s)
    \/ \E s \in Servers : ConsoleStart(s)
    \/ \E s \in Servers : ConsoleStop(s)
    \/ \E s \in Servers : ConsoleRestart(s)

Spec == Init /\ [][Next]_vars

----------------------------------------------------------------------------
(* Properties of the supervisor under Spec.  ran is the call that has just *)
(* returned: its caller and method, the desired state and the number of    *)
(* processes it started from, and its log.                                 *)

Log == ran.log

(* the entries of the stop() call that entry i of the log belongs to start *)
(* after the last "call:stop" before i                                     *)
StopCallOf(i) ==
    CHOOSE c \in 1..i : Log[c].k = "call:stop" /\ \A j \in (c + 1)..i : Log[j].k # "call:stop"

InStop(i, k) == \E j \in StopCallOf(i)..i : Log[j].k = k

(* the two members as last written before entry i *)
MembersAt(i) ==
    LET ms == {j \in 1..i : Log[j].k = "members"}
    IN Log[Max(ms)].n

(* C1: whenever the restart group is non-empty the desired state is Online *)
(* and automated restarts are enabled: in every state between calls, and   *)
(* after every write of either member inside a call.                       *)
C1_GroupOnlyWhenOnlineAndEnabled ==
    /\ \A s \in Servers :
          Len(restartEvents[s]) > 0 => online[s] /\ config[s].ENABLE_AUTOMATED_RESTARTS
    /\ \A i \in DOMAIN Log :
          (Log[i].k = "members" /\ Log[i].n >= 2) =>
              Log[i].n % 2 = 1 /\ config[ran.s].ENABLE_AUTOMATED_RESTARTS

(* a restart by the operator has returned with a new group entered, and    *)
(* the group was emptied on the way                                        *)
C1_Witness ==
    /\ ran.op = "restart" /\ ran.by = "console"
    /\ Has(Log, "cancel") /\ Has(Log, "sched")
    /\ Len(restartEvents[ran.s]) = 4

(* C2: a tick that finds the desired state Online and no process launches  *)
(* a fresh session in that tick.                                           *)
C2_TickStartsMissingServer ==
    (ran.op = "check" /\ Has(Log, "br:on0") /\ ~ran.exc) => Has(Log, "launch")

(* C3: a tick that finds the desired state Offline and a process sends the *)
(* stop keystroke, and has seen the process gone or sent SIGKILL by its    *)
(* end.                                                                    *)
C3_TickStopsUnwantedServer ==
    (ran.op = "check" /\ Has(Log, "br:off1") /\ ~ran.exc) =>
        Has(Log, "stuff:stop") /\ (Has(Log, "gone") \/ Has(Log, "sigkill"))

(* C4: whenever stop() returns, whatever the desired state it was called   *)
(* in, no process is left or SIGKILL was sent during the call.             *)
C4_StopLeavesNoProcessOrKills ==
    \A i \in DOMAIN Log :
        Log[i].k = "ret:stop" => Log[i].n = 0 \/ InStop(i, "sigkill")

PendingTicks(s) == {e \in queue : e.act = "check" /\ e.s = s}

TickRunning(s) == firing.act = "check" /\ firing.s = s

(* C5: whenever a supervisor's tick is not executing, exactly one tick of  *)
(* it is pending in the queue; the one a tick leaves is 60 seconds away.   *)
C5_ExactlyOnePendingTick ==
    \A s \in Servers :
        ~TickRunning(s) =>
            /\ Cardinality(PendingTicks(s)) = 1
            /\ (ran.op = "check" /\ ran.s = s) =>
                   \A e \in PendingTicks(s) : e.t = CheckPeriod

(* C8: a stop() called with the desired state Online whose twelve polls    *)
(* all find a process sends SIGKILL and returns with the group empty and   *)
(* the desired state Offline; SIGKILL is sent in no other case; a poll     *)
(* that finds no process makes stop() return at once, without SIGKILL.     *)
C8_KillOnlyAfterTwelvePolls ==
    \A i \in DOMAIN Log :
        /\ (Log[i].k = "polls") =>
              /\ Log[i].n = StopPolls
              /\ Log[StopCallOf(i)].n = 1
              /\ i + 2 \in DOMAIN Log
              /\ Log[i + 1].k = "sigkill" /\ Log[i + 2].k = "ret:stop"
              /\ MembersAt(i + 2) = 0
        /\ (Log[i].k = "sigkill") => i > 1 /\ Log[i - 1].k = "polls"
        /\ (Log[i].k = "gone") =>
              /\ i + 1 \in DOMAIN Log /\ Log[i + 1].k = "ret:stop"
              /\ ~InStop(i + 1, "sigkill")
        /\ (Log[i].k = "ret:stop" /\ Log[StopCallOf(i)].n = 1) =>
              InStop(i, "gone") \/ InStop(i, "polls")

(* the operator's stop has waited out the twelve polls and killed *)
C8_Witness ==
    /\ ran.op = "stop" /\ ran.on /\ Has(Log, "sigkill")
    /\ ~online[ran.s] /\ restartEvents[ran.s] = << >>

(* C17: restart(), which is stop() followed by start(), called with the    *)
(* desired state Online and automated restarts enabled, returns with the   *)
(* desired state Online and a restart group entered during the call,       *)
(* whether stop() saw the process gone or sent SIGKILL.                    *)
C17_StopThenStartRestoresOnline ==
    (ran.op = "restart" /\ ran.on /\ ~ran.exc
        /\ config[ran.s].ENABLE_AUTOMATED_RESTARTS) =>
            /\ online[ran.s]
            /\ Has(Log, "sched")
            /\ Len(restartEvents[ran.s]) = 4

C20_CallbacksNeverRaise ==
    /\ ran.by = "main" => ~ran.exc
    /\ ~dead["main"]

(* run() has popped a warning or the restart of a group that a stop() on   *)
(* the console thread cancelled meanwhile: the supervisor is Offline and   *)
(* holds no handle, the popped event is beyond scheduler.cancel            *)
Orphaned ==
    /\ firing # NoEvent
    /\ firing.act \in {"warn", "restart"}
    /\ ~online[firing.s]
    /\ restartEvents[firing.s] = << >>

(* C33: a warning or restart of a group cancelled by stop() takes no       *)
(* effect once stop() has returned, also when run() had dequeued it before *)
(* the cancellation: its callback sends no keystroke, launches no session  *)
(* and leaves the desired state Offline.                                   *)
C33_CancelledEventHasNoEffect ==
    [][(Orphaned /\ ran'.by = "main" /\ ran' # ran) =>
           /\ ~Has(ran'.log, "stuff:say")
           /\ ~Has(ran'.log, "launch")
           /\ ~online'[ran'.s]]_vars

(* C34: whenever restart() returns, called by run(), by the tick after     *)
(* failed probes or by the operator, the desired state is Online and the   *)
(* call has launched a new session.                                        *)
C34_RestartEndsOnlineAndLaunched ==
    Has(Log, "ret:restart") =>
        /\ online[ran.s]
        /\ Has(Log, "launch")

(* the warnings and restarts of supervisor s that are queued *)
GroupQueued(s) == {e \in queue : e.s = s /\ e.act \in {"warn", "restart"}}

(* C36: _scheduleRestarts enters events only with restarts enabled, the    *)
(* desired state Online and the list of handles empty, so a call enters at *)
(* most one group; every queued warning or restart has its handle in the   *)
(* supervisor's list, and the queue never holds more than four of them,    *)
(* of which at most one restart.                                           *)
C36_AtMostOneGroupQueued ==
    /\ \A s \in Servers :
          /\ Len(restartEvents[s]) \in {0, 4}
          /\ \A e \in GroupQueued(s) : e.id \in Range(restartEvents[s])
          /\ Cardinality(GroupQueued(s)) <= 4
          /\ Cardinality({e \in GroupQueued(s) : e.act = "restart"}) <= 1
    /\ Has(Log, "sched") =>
          /\ config[ran.s].ENABLE_AUTOMATED_RESTARTS
          /\ online[ran.s]
          /\ Cardinality({i \in DOMAIN Log : Log[i].k = "sched"}) = 1
          /\ Cardinality(GroupQueued(ran.s)) = 4

(* an operator's restart of an Online supervisor that held a group has     *)
(* cancelled it and entered the next one: four events queued again         *)
C36_Witness ==
    /\ ran.op = "restart" /\ ran.by = "console" /\ ran.on
    /\ Has(Log, "cancel") /\ Has(Log, "sched")
    /\ Cardinality(GroupQueued(ran.s)) = 4
    /\ Len(restartEvents[ran.s]) = 4

(* the probes in the log of the call that is returning *)
ProbedAt == {i \in DOMAIN ran'.log : ran'.log[i].k = "probe"}

(* a tick returns that listed no process for an Offline supervisor, or one *)
(* process for an Online supervisor and then ran no probe (probing is      *)
(* disabled or the uptime is within STARTUP_TIME) or a first probe that    *)
(* returned true                                                           *)
SteadyTick ==
    /\ ran = NoRan /\ ran'.op = "check" /\ ~ran'.exc
    /\ ~Has(ran'.log, "multiple")
    /\ \/ ~online[ran'.s] /\ Has(ran'.log, "br:off0")
       \/ /\ online[ran'.s] /\ Has(ran'.log, "br:on1")
          /\ \A i \in ProbedAt : i = Min(ProbedAt) => ran'.log[i].n = 1

(* C37: a tick of a supervisor in a steady state sends nothing to the      *)
(* session, signals no process, runs no second probe, calls neither        *)
(* start(), stop() nor restart(), and leaves the desired state and the     *)
(* restart group as they were; all it does is enter the next tick, due in  *)
(* CheckPeriod seconds.                                                    *)
C37_SteadyTickOnlyRearms ==
    [][SteadyTick =>
          /\ \A i \in DOMAIN ran'.log :
                ran'.log[i].k \in {"call:check", "br:off0", "br:on1", "probe", "born",
                                   "rearm", "ret:check"}
          /\ Cardinality(ProbedAt) <= 1
          /\ online' = online /\ restartEvents' = restartEvents
          /\ queue \subseteq queue'
          /\ \E e \in queue' \ queue :
                /\ queue' = queue \cup {e}
                /\ e.act = "check" /\ e.s = ran'.s /\ e.t = CheckPeriod]_vars

(* an Online supervisor's tick has probed its one process, past its        *)
(* start-up time, once, with the answer true, and re-armed                 *)
C37_Witness ==
    /\ ran.op = "check" /\ ran.on /\ ran.np = 1 /\ ~ran.exc
    /\ Log = << [k |-> "call:check", n |-> 0], [k |-> "br:on1", n |-> 1],
                [k |-> "probe", n |-> 1], [k |-> "rearm", n |-> CheckPeriod],
                [k |-> "ret:check", n |-> 0] >>
    /\ online[ran.s]

(* The desired state along a call: as the call found it, then as recorded  *)
(* after each write of a member.                                           *)
WritesAt == {j \in DOMAIN Log : Log[j].k = "members"}

OnAt(j) == Log[j].n % 2 = 1

OnBefore(j) ==
    LET ms == {i \in WritesAt : i < j}
    IN IF ms = {} THEN ran.on ELSE OnAt(Max(ms))

(* entry j lies inside a call of method m that has not returned *)
Within(j, m) ==
    \E c \in 1..j :
        /\ Log[c].k = "call:" \o m
        /\ \A i \in c..j : Log[i].k # "ret:" \o m

(* C38: the desired state is written only by start(), to Online and after  *)
(* the session has been launched, and by stop(), to Offline, after the     *)
(* 'stop' keystroke and before the first poll; between calls it does not   *)
(* change, and a call leaves it as its last write recorded it.             *)
C38_DesiredStateWrittenByStartAndStop ==
    /\ [](\A j \in WritesAt :
             OnAt(j) # OnBefore(j) =>
                 IF OnAt(j)
                 THEN /\ Within(j, "start")
                      /\ \E i \in 1..j : Log[i].k = "launch" /\ Within(i, "start")
                                            /\ \A m \in i..j : Log[m].k # "call:start"
                 ELSE /\ Within(j, "stop")
                      /\ Log[j - 1].k = "stuff:stop"
                      /\ \A i \in StopCallOf(j)..j : Log[i].k \notin {"polls", "gone"})
    /\ [](ran # NoRan =>
             online[ran.s] = (IF WritesAt = {} THEN ran.on ELSE OnAt(Max(WritesAt))))
    /\ [][online' # online => ran = NoRan /\ ran' # NoRan]_vars

(* a tick's restart after failed probes: the desired state went Offline in *)
(* its stop() and Online again in its start()                              *)
C38_Witness ==
    /\ ran.op = "check" /\ ran.on /\ online[ran.s]
    /\ Has(Log, "unresponsive")
    /\ \E i, j \in WritesAt : i < j /\ ~OnAt(i) /\ OnAt(j)

(* C40: every supervisor's tick keeps firing: run() is never left, and at  *)
(* any moment each supervisor has a tick that is queued or is the callback *)
(* being run, so the queue never drains and the next tick is at most       *)
(* CheckPeriod seconds and the callbacks before it away.                   *)
C40_TicksKeepFiring ==
    /\ ~dead["main"]
    /\ \A s \in Servers :
          \/ \E e \in queue : e.act = "check" /\ e.s = s /\ e.t <= CheckPeriod
          \/ firing.act = "check" /\ firing.s = s

(* the rounds of the culling loop in the log, and the entries of one round *)
RoundsAt == {i \in DOMAIN Log : Log[i].k = "multiple"}

NextRound(i) == Min({j \in RoundsAt \cup {Len(Log) + 1} : j > i})

(* C13: the culling loop of a tick ends and the tick re-arms: each round   *)
(* sends terminate to one process and kill only after it, to the same      *)
(* process, when the thirty polls did not see it gone; the next round, if  *)
(* any, finds fewer processes, unless a session launched earlier brought   *)
(* up its process meanwhile.                                               *)
C13_CullingEndsAndRearms ==
    (ran.op = "check" /\ RoundsAt # {}) =>
        /\ \A i \in RoundsAt :
              /\ NextRound(i) <= Len(Log) =>
                    \/ Log[NextRound(i)].n < Log[i].n
                    \/ \E j \in i..NextRound(i) : Log[j].k = "born"
              /\ Cardinality({j \in i..(NextRound(i) - 1) :
                                 Log[j].k \in {"terminate", "kill"}}) <= 2
        /\ \A i \in DOMAIN Log :
              Log[i].k = "kill" =>
                  /\ i > 2 /\ Log[i - 1].k = "waited" /\ Log[i - 1].n <= CullPolls
                  /\ Log[i - 2].k = "terminate" /\ Log[i - 2].n = Log[i].n
        /\ Has(Log, "rearm")

----------------------------------------------------------------------------
(* _scheduleRestarts as a function: SpecSched calls it on every uptime up  *)
(* to MaxUptime, restart periods on both sides of ten minutes, and each    *)
(* combination of the three conditions.                                    *)

RTimes == {120, 599, 600, 601, 660, 1200, 12 * 60 * 60}

Uptimes == 0..MaxUptime

Parked ==
    /\ config = [s \in Servers |-> Cfg(TRUE, TRUE, TRUE, 120, TRUE)]
    /\ online = [s \in Servers |-> FALSE]
    /\ restartEvents = [s \in Servers |-> << >>]
    /\ procs = [s \in Servers |-> {}]
    /\ launching = [s \in Servers |-> FALSE]
    /\ queue = {}
    /\ firing = NoEvent
    /\ dead = [t \in Threads |-> FALSE]
    /\ ran = NoRan

SchedInputs ==
    [up : Uptimes \cup {NoUptime}, rtime : RTimes, on : BOOLEAN, enabled : BOOLEAN,
     had : BOOLEAN]

SchedInit ==
    /\ Parked
    /\ lockOwner = [s \in Servers |-> "none"]
    /\ lockCount = [s \in Servers |-> 0]
    /\ thr = [t \in Threads |-> "idle"]
    /\ qBusy = {}
    /\ fin \in SchedInputs
    /\ fout = << >>

(* the call, with the tick already queued (handle 1) and, when had, a      *)
(* group of one handle in the list                                         *)
SchedCall ==
    /\ fout = << >>
    /\ fout' = ScheduleRestarts({Event(1, 0, "check", 0, "test")}, {},
                                Cfg(TRUE, fin.enabled, TRUE, fin.rtime, FALSE), fin.on,
                                IF fin.had THEN << 2 >> ELSE << >>, fin.up, "test")
    /\ UNCHANGED <<main, lockOwner, lockCount, thr, qBusy, fin>>

SpecSched == SchedInit /\ [][SchedCall]_vars

Called == fout # << >>

(* the call has entered a group *)
Populated == Called /\ ~fin.had /\ Len(fout.hs) > 0

Entered(i) == CHOOSE e \in fout.q : e.id = fout.hs[i]

(* C9: whenever _scheduleRestarts enters the group, whatever the uptime    *)
(* and the restart period, the restart is at least 600 seconds away, each  *)
(* warning has a non-negative delay not after the restart, and the events  *)
(* are entered in the order warning 10, 5, 1, restart.                     *)
C9_RestartAtLeastTenMinutesAway ==
    Populated =>
        /\ Len(fout.hs) = 4
        /\ << Entered(1).act, Entered(2).act, Entered(3).act, Entered(4).act >>
              = << "warn", "warn", "warn", "restart" >>
        /\ << Entered(1).arg, Entered(2).arg, Entered(3).arg >> = << 10, 5, 1 >>
        /\ Entered(4).t >= WarnLead
        /\ \A i \in 1..3 : Entered(i).t >= 0 /\ Entered(i).t <= Entered(4).t
        /\ \A i \in 1..3 : Entered(i).t <= Entered(i + 1).t

(* a group entered for a server that is not overdue *)
C9_Witness == Populated /\ fin.up < fin.rtime - WarnLead /\ Entered(4).t > WarnLead

(* C10: when the uptime is at least the restart period less 600 seconds,   *)
(* exactly four events are entered: the warnings "10", "5" and "1" at 0,   *)
(* 300 and 540 seconds and the restart at 600 seconds.                     *)
C10_OverduePlan ==
    (Populated /\ fin.up >= fin.rtime - WarnLead) =>
        /\ Len(fout.hs) = 4
        /\ Cardinality(fout.q) = 4 + 1
        /\ [i \in 1..4 |-> << Entered(i).act, Entered(i).arg, Entered(i).t >>]
              = << << "warn", 10, 0 >>, << "warn", 5, 300 >>, << "warn", 1, 540 >>,
                   << "restart", 0, 600 >> >>

(* an overdue group under a restart period shorter than ten minutes *)
C10_Witness == Populated /\ fin.rtime < WarnLead /\ fin.up > fin.rtime

(* the condition of _scheduleRestarts holds and the uptime could be read *)
Schedulable == fin.enabled /\ fin.on /\ ~fin.had /\ fin.up # NoUptime

(* C11: when the uptime is less than the restart period less 600 seconds,  *)
(* _scheduleRestarts enters exactly four events: the warnings "10", "5"    *)
(* and "1" at R - uptime - 600, R - uptime - 300 and R - uptime - 60 and   *)
(* the restart at R - uptime, so that uptime plus the restart's delay is R.*)
C11_PlannedGroup ==
    (Called /\ Schedulable /\ fin.up < fin.rtime - WarnLead) =>
        /\ Len(fout.hs) = 4
        /\ Cardinality(fout.q) = 4 + 1
        /\ [i \in 1..4 |-> << Entered(i).act, Entered(i).arg, Entered(i).t >>]
              = << << "warn", 10, fin.rtime - fin.up - 600 >>,
                   << "warn", 5, fin.rtime - fin.up - 300 >>,
                   << "warn", 1, fin.rtime - fin.up - 60 >>,
                   << "restart", 0, fin.rtime - fin.up >> >>
        /\ fin.up + Entered(4).t = fin.rtime

(* a server one minute old under a twenty-minute period: restart in 1140 s *)
C11_Witness ==
    Called /\ Schedulable /\ fin.up = 60 /\ fin.rtime = 1200 /\ Entered(4).t = 1140

----------------------------------------------------------------------------
(* One tick as a function of what the probes answer: SpecProbe runs _check *)
(* on a server that is wanted online, has its restart group entered and    *)
(* one process older than STARTUP_TIME, for every sequence of results of   *)
(* the follow-up probes.                                                   *)

FollowUps ==
    [1..ProbeRetries -> {"T", "F"}] \cup {Script("F", n, "X") : n \in 0..ProbeFailLimit}

ProbeInputs == [first : ProbeResults, sc : FollowUps]

TickWorld ==
    LET c == Cfg(TRUE, TRUE, TRUE, 660, FALSE)
        P == {[pid |-> 1, ct |-> 1, age |-> AgeCap, k |-> 0]}
        b == CHOOSE w \in construct(World("test", c, FALSE, << >>, {}, P, FALSE, {})) : ~w.exc
    IN World("test", c, b.on, b.revs, {e \in b.q : e.act # "check"}, b.P, FALSE, {})

ProbeInit ==
    /\ Parked
    /\ lockOwner = [s \in Servers |-> "none"]
    /\ lockCount = [s \in Servers |-> 0]
    /\ thr = [t \in Threads |-> "idle"]
    /\ qBusy = {}
    /\ fin \in ProbeInputs
    /\ fout = << >>

ProbeTick ==
    /\ fout = << >>
    /\ \E w \in checkWith(TickWorld, {<< fin.first, fin.sc >>}) :
          fout' = [log |-> w.log, exc |-> w.exc]
    /\ UNCHANGED <<main, lockOwner, lockCount, thr, qBusy, fin>>

SpecProbe == ProbeInit /\ [][ProbeTick]_vars

PLog == fout.log

ProbesAt == {i \in DOMAIN PLog : PLog[i].k = "probe"}

FollowUpsAt == ProbesAt \ {Min(ProbesAt)}

RestartsAt == {i \in DOMAIN PLog : PLog[i].k = "call:restart"}

(* the follow-up results up to the n-th hold at least three failures and   *)
(* every one of them is a reply the probe can classify                     *)
ThreeFailuresBy(n) ==
    /\ Cardinality({i \in 1..n : fin.sc[i] = "F"}) >= 3
    /\ \A i \in 1..n : fin.sc[i] # "X"

(* C12: in a tick that runs the first probe and gets false, at most ten    *)
(* follow-up probes are run, restart() is called exactly when three of the *)
(* follow-up results so far are false, it is called at most once, and no   *)
(* probe is run after it; a first probe that returns true is the only one. *)
C12_RestartOnceOnThreeFailures ==
    (Called /\ ProbesAt # {}) =>
        /\ Cardinality(FollowUpsAt) <= ProbeRetries
        /\ Cardinality(RestartsAt) <= 1
        /\ \A r \in RestartsAt : \A i \in ProbesAt : i < r
        /\ PLog[Min(ProbesAt)].n = 1 => FollowUpsAt = {} /\ RestartsAt = {}
        /\ RestartsAt # {} <=>
              fin.first = "F" /\ \E n \in 1..ProbeRetries : ThreeFailuresBy(n)
        /\ RestartsAt # {} =>
              /\ Cardinality({i \in FollowUpsAt : PLog[i].n = 0}) = 3
              /\ \A i \in 1..Cardinality(FollowUpsAt) :
                    ThreeFailuresBy(i) <=> i = Cardinality(FollowUpsAt)
        /\ (RestartsAt = {} /\ fin.first = "F" /\ ~fout.exc) =>
              Cardinality(FollowUpsAt) = ProbeRetries

(* the first probe failed, the follow-ups answered F T F T T F T T T T,    *)
(* and the restart was called after the sixth                              *)
C12_Witness ==
    /\ Called /\ fin.first = "F"
    /\ fin.sc = << "F", "T", "F", "T", "T", "F", "T", "T", "T", "T" >>
    /\ Cardinality(FollowUpsAt) = 6 /\ Cardinality(RestartsAt) = 1
    /\ Has(PLog, "ret:check")

----------------------------------------------------------------------------
(* One tick as a function of the processes it finds: SpecCull runs _check  *)
(* on every set of up to MaxCull processes, in every order of their        *)
(* creation times, in either desired state.                                *)

Perms(n) == {f \in [1..n -> 1..n] : \A i, j \in 1..n : f[i] = f[j] => i = j}

CullSets ==
    UNION {{{[pid |-> i, ct |-> f[i], age |-> AgeCap, k |-> 0] : i \in 1..n}
              : f \in Perms(n)} : n \in 0..MaxCull}

CullInputs == [P : CullSets, on : BOOLEAN]

CullInit ==
    /\ Parked
    /\ lockOwner = [s \in Servers |-> "none"]
    /\ lockCount = [s \in Servers |-> 0]
    /\ thr = [t \in Threads |-> "idle"]
    /\ qBusy = {}
    /\ fin \in CullInputs
    /\ fout = << >>

CullTick ==
    /\ fout = << >>
    /\ \E w \in checkWith(World("test", Cfg(fin.on, FALSE, FALSE, 660, FALSE), fin.on,
                                 << >>, {}, fin.P, FALSE, {}), ProbeRuns) :
          fout' = [log |-> w.log, exc |-> w.exc, left |-> PidsOf(w.P)]
    /\ UNCHANGED <<main, lockOwner, lockCount, thr, qBusy, fin>>

SpecCull == CullInit /\ [][CullTick]_vars

CLog == fout.log

CtOf(pid) == ProcOf(fin.P, pid).ct

CullRounds == {i \in DOMAIN CLog : CLog[i].k = "multiple"}

(* the entries of kind k in the round that begins at entry i *)
InRound(i, k) ==
    {j \in (i + 1)..Len(CLog) :
        CLog[j].k = k /\ \A m \in (i + 1)..j : CLog[m].k # "multiple"}

Branches == {i \in DOMAIN CLog : CLog[i].k \in {"br:on0", "br:on1", "br:off1", "br:off0"}}

(* C35: a tick that finds several processes culls them in either desired   *)
(* state, and when the culling loop is through the tick goes on with a     *)
(* list of at most one process; at most one is running when the tick ends. *)
C35_AtMostOneAfterCulling ==
    (Called /\ ~fout.exc) =>
        /\ Cardinality(fin.P) > 1 => Has(CLog, "multiple")
        /\ Cardinality(Branches) = 1
        /\ \A i \in Branches :
              /\ \A j \in CullRounds : j < i
              /\ CLog[i].k = "br:off1" => CLog[i].n = 1
        /\ Cardinality(fout.left) <= 1

(* desired Offline and three processes: two rounds, then the tick compares *)
(* the one process left with the desired state                             *)
C35_Witness ==
    /\ Called /\ ~fout.exc /\ ~fin.on /\ Cardinality(fin.P) = 3
    /\ Cardinality(CullRounds) = 2
    /\ Has(CLog, "br:off1") /\ Cardinality(fout.left) = 1

----------------------------------------------------------------------------
(* The restart group entered and cancelled: SpecPair calls                 *)
(* _scheduleRestarts and then _cancelRestartEvents where the program calls *)
(* the first, with no group entered (kind "pair"), and                     *)
(* _cancelRestartEvents alone on a group of which the first fired events   *)
(* have left the queue (kind "cancel").  The queue holds the supervisor's  *)
(* tick and, when others, a tick and a restart of a second supervisor.     *)

OwnTick == {Event(1, 0, "check", 0, "test")}

OtherEvents == {Event(2, 30, "check", 0, "skies"), Event(3, 600, "restart", 0, "skies")}

GroupHandles == << 4, 5, 6, 7 >>

GroupEvents ==
    {Event(4, 0, "warn", 10, "test"), Event(5, 300, "warn", 5, "test"),
     Event(6, 540, "warn", 1, "test"), Event(7, 600, "restart", 0, "test")}

PairProcs == {{}} \cup {{[pid |-> 1, ct |-> 1, age |-> a, k |-> 0]} : a \in {0, StartupTime, AgeCap}}

PairInputs ==
    [kind : {"pair"}, on : BOOLEAN, enabled : BOOLEAN, P : PairProcs,
     rtime : {120, 660, 1200}, others : BOOLEAN, fired : {0}]
    \cup [kind : {"cancel"}, on : {TRUE}, enabled : {TRUE}, P : PairProcs,
          rtime : {660}, others : BOOLEAN, fired : 0..4]

(* the state the call starts from *)
PairWorld ==
    LET oth == IF fin.others THEN OtherEvents ELSE {}
        grp == IF fin.kind = "cancel" THEN {e \in GroupEvents : e.id >= 4 + fin.fired}
               ELSE {}
    IN World("test", Cfg(fin.on, fin.enabled, FALSE, fin.rtime, FALSE), fin.on,
             IF fin.kind = "cancel" THEN GroupHandles ELSE << >>,
             OwnTick \cup oth \cup grp, fin.P, FALSE, {3})

PairInit ==
    /\ Parked
    /\ lockOwner = [s \in Servers |-> "none"]
    /\ lockCount = [s \in Servers |-> 0]
    /\ thr = [t \in Threads |-> "idle"]
    /\ qBusy = {}
    /\ fin \in PairInputs
    /\ fout = << >>

Outcome(w) == [q |-> w.q, revs |-> w.revs, log |-> w.log, exc |-> w.exc]

PairCall ==
    /\ fout = << >> /\ fin.kind = "pair"
    /\ \E w \in Bind(scheduleRestarts(PairWorld), LAMBDA v : {cancelRestartEvents(v)}) :
          fout' = Outcome(w)
    /\ UNCHANGED <<main, lockOwner, lockCount, thr, qBusy, fin>>

CancelCall ==
    /\ fout = << >> /\ fin.kind = "cancel"
    /\ fout' = Outcome(cancelRestartEvents(PairWorld))
    /\ UNCHANGED <<main, lockOwner, lockCount, thr, qBusy, fin>>

PairNext == PairCall \/ CancelCall

SpecPair == PairInit /\ [][PairNext]_vars

GroupOf(q, s) == {e \in q : e.s = s /\ e.act \in {"warn", "restart"}}

(* C16: _scheduleRestarts followed at once by _cancelRestartEvents leaves  *)
(* the queue with exactly the events it held before, none of them a        *)
(* warning or restart of this supervisor, and the list of handles empty;   *)
(* _cancelRestartEvents on a list with handles of events that have fired   *)
(* returns without an exception, removes the pending events of the list    *)
(* and leaves every other event queued.                                    *)
C16_ScheduleThenCancelRestoresQueue ==
    Called =>
        /\ (fin.kind = "pair" /\ ~fout.exc) =>
              /\ fout.q = PairWorld.q
              /\ GroupOf(fout.q, "test") = {}
              /\ fout.revs = << >>
        /\ fin.kind = "cancel" =>
              /\ ~fout.exc
              /\ fout.revs = << >>
              /\ fout.q = {e \in PairWorld.q : e.id \notin Range(GroupHandles)}
              /\ \A e \in PairWorld.q : e \notin GroupOf(PairWorld.q, "test") => e \in fout.q

(* a group was entered among the events of two supervisors and cancelled   *)
C16_Witness ==
    /\ Called /\ fin.kind = "pair" /\ fin.others /\ ~fout.exc
    /\ Has(fout.log, "sched") /\ Has(fout.log, "cancel")
    /\ fout.q = OwnTick \cup OtherEvents

----------------------------------------------------------------------------
(* The locks.  SpecLock follows the two threads statement by statement     *)
(* through the methods of two supervisors that share the scheduler: which  *)
(* "with self._lock" each is inside, which member it reads or writes,      *)
(* when it sends keystrokes, and when it is inside an operation on the     *)
(* scheduler's queue.  A method is the sequence of these steps along its   *)
(* longest path:                                                           *)
(*   "acq"/"rel"   entering and leaving a "with self._lock" block          *)
(*   "rd:m"/"wr:m" a read or write of member m                             *)
(*   "stuff"       keystrokes into the screen session                      *)
(*   "q:op"        enter, cancel or pop on Server.scheduler                *)

LockServers == {"test", "skies"}

getPIDsSteps == << "acq", "rel" >>

getTargetStateSteps == << "rd:_online" >>

getUptimeSteps == getPIDsSteps \o << "rd:_online" >>

sendCommandSteps == << "acq", "stuff", "rel" >>

scheduleCheckSteps == << "acq", "q:enter", "rel" >>

scheduleRestartsSteps ==
    << "acq", "rd:_restartEvents", "rd:_online" >> \o getUptimeSteps
        \o << "q:enter", "wr:_restartEvents", "rel" >>

cancelRestartEventsSteps ==
    << "acq", "rd:_restartEvents", "q:cancel", "wr:_restartEvents", "rel" >>

stopSteps ==
    << "acq", "rd:_online" >> \o cancelRestartEventsSteps \o sendCommandSteps
        \o << "wr:_online" >> \o getPIDsSteps \o << "acq", "rel", "rel" >>

startSteps ==
    << "acq", "rd:_online" >> \o getPIDsSteps \o << "acq", "rel", "wr:_online" >>
        \o scheduleRestartsSteps \o << "rel" >>

(* a variant of restart() without its own "with self._lock" *)
restartStepsUnlocked == sendCommandSteps \o stopSteps \o startSteps

restartSteps == << "acq" >> \o sendCommandSteps \o stopSteps \o startSteps \o << "rel" >>

(* a variant of _check that does not leave its "with self._lock" *)
checkStepsKeepingLock ==
    << "acq" >> \o getPIDsSteps \o << "rd:_online" >> \o getUptimeSteps
        \o << "acq", "rel" >> \o scheduleCheckSteps

checkSteps ==
    << "acq" >> \o getPIDsSteps \o << "rd:_online" >> \o getUptimeSteps
        \o << "acq", "rel" >> \o scheduleCheckSteps \o << "rel" >>

statusSteps == getTargetStateSteps \o getPIDsSteps \o << "acq", "rel" >>

(* run() pops the event before it calls the action *)
Steps(op) ==
    CASE op = "check" -> << "q:pop" >> \o checkSteps
      [] op = "warn" -> << "q:pop" >> \o sendCommandSteps
      [] op = "fire:restart" -> << "q:pop" >> \o restartSteps
      [] op = "start" -> startSteps
      [] op = "stop" -> stopSteps
      [] op = "restart" -> restartSteps
      [] op = "status" -> statusSteps

OpsOf(t) ==
    IF t = "main" THEN {"check", "warn", "fire:restart"}
    ELSE {"start", "stop", "restart", "status"}

Idle == [op |-> "idle", s |-> "none", i |-> 0]

NoAccess == [by |-> "none", s |-> "none", op |-> "none", what |-> "none", held |-> TRUE]

LockInit ==
    /\ Parked
    /\ lockOwner = [s \in LockServers |-> "none"]
    /\ lockCount = [s \in LockServers |-> 0]
    /\ thr = [t \in Threads |-> Idle]
    /\ qBusy = {}
    /\ fin = NoAccess
    /\ fout = << >>

StepOf(t) == Steps(thr[t].op)[thr[t].i]

Running(t) == thr[t].op # "idle" /\ thr[t].i <= Len(Steps(thr[t].op))

Forward(t) == thr' = [thr EXCEPT ![t].i = @ + 1]

(* the scheduler fires an event of server s, or a command names it *)
LBegin(t, op, s) ==
    /\ thr[t] = Idle
    /\ thr' = [thr EXCEPT ![t] = [op |-> op, s |-> s, i |-> 1]]
    /\ UNCHANGED <<main, lockOwner, lockCount, qBusy, fin, fout>>

(* RLock.acquire: waits while another thread holds the lock *)
LAcquire(t) ==
    /\ Running(t) /\ StepOf(t) = "acq"
    /\ lockOwner[thr[t].s] \in {"none", t}
    /\ lockOwner' = [lockOwner EXCEPT ![thr[t].s] = t]
    /\ lockCount' = [lockCount EXCEPT ![thr[t].s] = @ + 1]
    /\ Forward(t)
    /\ UNCHANGED <<main, qBusy, fin, fout>>

LRelease(t) ==
    /\ Running(t) /\ StepOf(t) = "rel"
    /\ lockCount' = [lockCount EXCEPT ![thr[t].s] = @ - 1]
    /\ lockOwner' = [lockOwner EXCEPT ![thr[t].s] =
                        IF lockCount[thr[t].s] = 1 THEN "none" ELSE @]
    /\ Forward(t)
    /\ UNCHANGED <<main, qBusy, fin, fout>>

(* a member is read or written, or keystrokes are sent *)
LAccess(t) ==
    /\ Running(t) /\ StepOf(t) \in {"rd:_online", "wr:_online", "rd:_restartEvents",
                                    "wr:_restartEvents", "stuff"}
    /\ fin' = [by |-> t, s |-> thr[t].s, op |-> thr[t].op, what |-> StepOf(t),
               held |-> lockOwner[thr[t].s] = t]
    /\ Forward(t)
    /\ UNCHANGED <<main, lockOwner, lockCount, qBusy, fout>>

(* a queue operation begins: the list is read or changed ... *)
LQueueBegin(t) ==
    /\ Running(t) /\ StepOf(t) \in {"q:enter", "q:cancel", "q:pop"}
    /\ t \notin qBusy
    /\ qBusy' = qBusy \cup {t}
    /\ UNCHANGED <<main, lockOwner, lockCount, thr, fin, fout>>

(* ... and ends: it is a heap again *)
LQueueEnd(t) ==
    /\ Running(t) /\ t \in qBusy
    /\ qBusy' = qBusy \ {t}
    /\ Forward(t)
    /\ UNCHANGED <<main, lockOwner, lockCount, fin, fout>>

LReturn(t) ==
    /\ thr[t].op # "idle" /\ ~Running(t)
    /\ thr' = [thr EXCEPT ![t] = Idle]
    /\ UNCHANGED <<main, lockOwner, lockCount, qBusy, fin, fout>>

LockNext ==
    \/ \E t \in Threads : \E op \in OpsOf(t) : \E s \in LockServers : LBegin(t, op, s)
    \/ \E t \in Threads : LAcquire(t)
    \/ \E t \in Threads : LRelease(t)
    \/ \E t \in Threads : LAccess(t)
    \/ \E t \in Threads : LQueueBegin(t)
    \/ \E t \in Threads : LQueueEnd(t)
    \/ \E t \in Threads : LReturn(t)

SpecLock == LockInit /\ [][LockNext]_vars

(* C6: every read and write of the desired state and of the restart group, *)
(* and every injection of keystrokes, is made by a thread that holds the   *)
(* supervisor's lock.                                                      *)
C6_MembersOnlyUnderLock == fin.held

(* C7: the shared scheduler's queue is never being operated on by two      *)
(* threads at once.                                                        *)
C7_QueueOneThreadAtATime == Cardinality(qBusy) <= 1

(* thread t is inside the "with self._lock" of restart() *)
InRestart(t) ==
    LET base == IF thr[t].op = "fire:restart" THEN 1 ELSE 0
    IN /\ thr[t].op \in {"restart", "fire:restart"}
       /\ thr[t].i > base + 1
       /\ thr[t].i <= base + Len(restartSteps)

(* thread u is past the first "with self._lock" of a start, stop, restart, *)
(* tick or warning and has not returned from it                            *)
Inside(u) ==
    /\ thr[u].op \in {"start", "stop", "restart", "check", "warn", "fire:restart"}
    /\ thr[u].i > (IF u = "main" THEN 2 ELSE 1)
    /\ thr[u].i <= Len(Steps(thr[u].op))

(* C26: from the first statement of restart() to its last the calling      *)
(* thread owns the supervisor's lock, so that its nested acquisitions do   *)
(* not wait, and no start, stop, restart, tick or warning of the other     *)
(* thread on the same supervisor is under way.                             *)
C26_RestartIsOneCriticalSection ==
    \A t \in Threads :
        InRestart(t) =>
            /\ lockOwner[thr[t].s] = t
            /\ \A u \in Threads \ {t} : thr[u].s = thr[t].s => ~Inside(u)

(* the scheduler thread is between the stop() and the start() of a fired   *)
(* restart and the console thread waits to enter stop() on that supervisor *)
C26_Witness ==
    /\ thr["main"].op = "fire:restart"
    /\ thr["main"].i = 1 + 1 + Len(sendCommandSteps) + Len(stopSteps) + 1
    /\ thr["console"] = [op |-> "stop", s |-> thr["main"].s, i |-> 1]

(* A thread inside a method goes on: its statements terminate, and a       *)
(* waiting acquire is granted when the lock is free again and again (run() *)
(* sleeps between callbacks, the console waits for the next line).         *)
LProgress(t) ==
    LRelease(t) \/ LAccess(t) \/ LQueueBegin(t) \/ LQueueEnd(t) \/ LReturn(t)

SpecLockFair ==
    SpecLock /\ \A t \in Threads : WF_vars(LProgress(t)) /\ SF_vars(LAcquire(t))

(* the locks thread t owns *)
HeldBy(t) == {s \in LockServers : lockOwner[s] = t}

(* thread t is at an acquire of a lock *)
Requesting(t) == Running(t) /\ StepOf(t) = "acq"

(* ... that another thread owns *)
Blocked(t) == Requesting(t) /\ lockOwner[thr[t].s] \notin {"none", t}

(* C39: no thread owns the locks of two supervisors at once; a thread that *)
(* is in no method, the scheduler thread between callbacks included, owns  *)
(* none; a thread waiting for a lock waits for a thread that is inside a   *)
(* method and is not waiting itself; and every acquire is granted in the   *)
(* end.                                                                    *)
C39_NoDeadlockOnLocks ==
    /\ [](\A t \in Threads :
             /\ Cardinality(HeldBy(t)) <= 1
             /\ thr[t] = Idle => HeldBy(t) = {}
             /\ HeldBy(t) # {} => HeldBy(t) = {thr[t].s}
             /\ Blocked(t) =>
                   LET u == lockOwner[thr[t].s]
                   IN Running(u) /\ ~Blocked(u))
    /\ \A t \in Threads : Requesting(t) ~> ~Requesting(t)

(* the console's stop waits for the lock of the supervisor whose tick the  *)
(* scheduler thread is inside, while the lock of the other one is free     *)
C39_Witness ==
    /\ Blocked("console") /\ thr["console"].op = "stop"
    /\ thr["main"].op = "check" /\ HeldBy("main") = {thr["console"].s}
    /\ \E s \in LockServers : lockOwner[s] = "none"

----------------------------------------------------------------------------
(* The scheduler alone: SpecQueue enters events of two supervisors, lets   *)
(* run() sleep, pop and call them, and numbers the handles in the order of *)
(* entry (fin counts the events entered so far, and no handle is used      *)
(* twice).  sched keeps the events in a heap of tuples (time, priority,    *)
(* action, argument): events equal in time and priority are ordered by     *)
(* comparing the actions, bound methods of unrelated objects, so either    *)
(* may come first.                                                         *)

QueueInit ==
    /\ Parked
    /\ lockOwner = [s \in Servers |-> "none"]
    /\ lockCount = [s \in Servers |-> 0]
    /\ thr = [t \in Threads |-> "idle"]
    /\ qBusy = {}
    /\ fin = 0
    /\ fout = << >>

QEnter(d, act, s) ==
    /\ fin < MaxEnter
    /\ queue' = queue \cup {enter(queue, 1..fin, d, act, 0, s)}
    /\ fin' = fin + 1
    /\ UNCHANGED <<config, online, restartEvents, procs, launching, firing, dead, ran,
                   lockOwner, lockCount, thr, qBusy, fout>>

QCancel(e) ==
    /\ e \in queue
    /\ queue' = cancel(queue, e.id)
    /\ UNCHANGED <<config, online, restartEvents, procs, launching, firing, dead, ran, aux>>

QSleep ==
    /\ firing = NoEvent /\ queue # {}
    /\ Min({e.t : e \in queue}) > 0
    /\ queue' = Shift(queue, Min({e.t : e \in queue}))
    /\ UNCHANGED <<config, online, restartEvents, procs, launching, firing, dead, ran, aux>>

(* a variant of run() that pops without waiting for the action to return *)
QPopEarly(e) ==
    /\ e \in Due(queue)
    /\ queue' = queue \ {e}
    /\ firing' = e
    /\ UNCHANGED <<config, online, restartEvents, procs, launching, dead, ran, aux>>

QPop(e) ==
    /\ firing = NoEvent
    /\ e \in Due(queue)
    /\ queue' = queue \ {e}
    /\ firing' = e
    /\ UNCHANGED <<config, online, restartEvents, procs, launching, dead, ran, aux>>

QCall ==
    /\ firing # NoEvent
    /\ firing' = NoEvent
    /\ UNCHANGED <<config, online, restartEvents, procs, launching, queue, dead, ran, aux>>

QueueNext ==
    \/ \E d \in {0, CheckPeriod} : \E act \in {"check", "warn"} :
          \E s \in LockServers : QEnter(d, act, s)
    \/ \E e \in queue : QCancel(e)
    \/ QSleep
    \/ \E e \in queue : QPop(e)
    \/ QCall

SpecQueue == QueueInit /\ [][QueueNext]_vars

(* C15: the event run() has popped is not after any event still pending in *)
(* (time, priority), and of events equal in both it is the one entered     *)
(* first.                                                                  *)
C15_FiredInTimePriorityEntryOrder ==
    firing # NoEvent =>
        \A f \in queue :
            \/ firing.t < f.t
            \/ firing.t = f.t /\ firing.prio < f.prio
            \/ firing.t = f.t /\ firing.prio = f.prio /\ firing.id < f.id

(* C25: one callback at a time: run() pops an event only when the action   *)
(* of the event popped before it has returned, whichever supervisors the   *)
(* two events belong to.                                                   *)
C25_OneCallbackAtATime ==
    [][(firing' # NoEvent /\ firing' # firing) => firing = NoEvent]_vars

(* a callback of one supervisor is running while an event of the other is  *)
(* due                                                                     *)
C25_Witness ==
    /\ firing # NoEvent
    /\ \E e \in Due(queue) : e.s # firing.s

----------------------------------------------------------------------------
(* The probe as a function of what the socket gives it: SpecReply calls    *)
(* isResponsive on a refused connection, a timeout, and every reply of up  *)
(* to MaxReply bytes over the byte values the test distinguishes, and some *)
(* replies with UTF-16 surrogates.  The result is "T" (returns True), "F"  *)
(* (returns False) or "X" (raises).                                        *)

ReplyBytes == {0, 49, 167, 255}

SeqsUpTo(A, n) == UNION {[1..k -> A] : k \in 0..n}

SurrogateReplies ==
    { << 255, 0, 2, 216, 0, 220, 0 >>, << 255, 0, 1, 216, 0 >>, << 255, 0, 1, 220, 0 >>,
      << 255, 0, 2, 216, 0, 0, 49 >> }

(* str.decode('utf-16be'): the 16-bit units of an even number of bytes *)
Units(p) == [i \in 1..(Len(p) \div 2) |-> p[2 * i - 1] * 256 + p[2 * i]]

HighSurrogate(u) == u >= 55296 /\ u <= 56319

LowSurrogate(u) == u >= 56320 /\ u <= 57343

(* ... which raises UnicodeDecodeError on a trailing byte and on a         *)
(* surrogate that is not half of a pair                                    *)
Undecodable(p) ==
    \/ Len(p) % 2 = 1
    \/ LET u == Units(p)
       IN \E i \in DOMAIN u :
             \/ HighSurrogate(u[i]) /\ (i = Len(u) \/ ~LowSurrogate(u[i + 1]))
             \/ LowSurrogate(u[i]) /\ (i = 1 \/ ~HighSurrogate(u[i - 1]))

Magic == << 167, 49, 0 >>

(* a variant that takes any reply it can decode *)
RespondToAnything(in) ==
    IF in.sock # "ok" THEN "F"
    ELSE IF Len(in.d) = 0 THEN "F"
    ELSE IF Undecodable(SubSeq(in.d, 4, Len(in.d))) THEN "X"
    ELSE "T"

(* the body of isResponsive: socket.error and socket.timeout, IndexError   *)
(* from d[0] of an empty reply and AssertionError are caught               *)
Respond(in) ==
    IF in.sock # "ok" THEN "F"
    ELSE IF Len(in.d) = 0 THEN "F"
    ELSE IF in.d[1] # 255 THEN "F"
    ELSE LET p == SubSeq(in.d, 4, Len(in.d))
         IN IF Undecodable(p) THEN "X"
            ELSE IF Len(Units(p)) >= 3 /\ SubSeq(Units(p), 1, 3) = Magic THEN "T"
            ELSE "F"

ReplyInit ==
    /\ Parked
    /\ lockOwner = [s \in Servers |-> "none"]
    /\ lockCount = [s \in Servers |-> 0]
    /\ thr = [t \in Threads |-> "idle"]
    /\ qBusy = {}
    /\ \/ fin \in [sock : {"refused", "timeout"}, d : {<< >>}]
       \/ \E k \in 0..MaxReply : \E d \in [1..k -> ReplyBytes] :
             fin = [sock |-> "ok", d |-> d]
       \/ fin \in [sock : {"ok"}, d : SurrogateReplies]
    /\ fout = << >>

ReplyCall ==
    /\ fout = << >>
    /\ fout' = << Respond(fin) >>
    /\ UNCHANGED <<main, lockOwner, lockCount, thr, qBusy, fin>>

SpecReply == ReplyInit /\ [][ReplyCall]_vars

(* the reply is well formed: byte 0 is 0xFF and bytes 3 to 8 are the       *)
(* UTF-16 big-endian encoding of U+00A7, U+0031, U+0000                    *)
WellFormed ==
    /\ fin.sock = "ok" /\ Len(fin.d) >= 9 /\ fin.d[1] = 255
    /\ SubSeq(fin.d, 4, 9) = << 0, 167, 0, 49, 0, 0 >>

(* C21: the probe returns False, and does not raise, on a socket error or  *)
(* timeout and for every reply that is not well formed: empty, shorter     *)
(* than four bytes, with an odd number of bytes after byte 3, with a wrong *)
(* first byte or a wrong decoded prefix.                                   *)
C21_MalformedReplyIsFalse ==
    (Called /\ ~WellFormed) => fout[1] = "F"

(* C22: the probe returns True only for a well-formed reply.               *)
C22_TrueOnlyForMagicPrefix ==
    (Called /\ fout[1] = "T") => WellFormed

(* the nine-byte reply 0xFF, two length bytes and the three code points    *)
C22_Witness ==
    /\ Called /\ fout[1] = "T"
    /\ fin.d = << 255, 0, 49, 0, 167, 0, 49, 0, 0 >>

----------------------------------------------------------------------------
(* Construction as a function: SpecBuild calls Server.__init__ for every   *)
(* configuration and every set of processes found at launch.               *)

BuildInit ==
    /\ Parked
    /\ lockOwner = [s \in Servers |-> "none"]
    /\ lockCount = [s \in Servers |-> 0]
    /\ thr = [t \in Threads |-> "idle"]
    /\ qBusy = {}
    /\ fin \in [cfg : {Cfg(a, b, c, r, m) : a \in BOOLEAN, b \in BOOLEAN, c \in BOOLEAN,
                                        r \in {120, 660}, m \in BOOLEAN},
                 P : InitProcSets]
    /\ fout = << >>

BuildCall ==
    /\ fout = << >>
    /\ \E w \in construct(World("test", fin.cfg, FALSE, << >>, {}, fin.P, FALSE, {})) :
          fout' = << w >>
    /\ UNCHANGED <<main, lockOwner, lockCount, thr, qBusy, fin>>

SpecBuild == BuildInit /\ [][BuildCall]_vars

(* C23: a constructed supervisor wants its server online exactly if        *)
(* START_SERVER is set or a process of the server was running at launch.   *)
C23_OnlineIfConfiguredOrRunning ==
    (Called /\ ~fout[1].exc) =>
        (fout[1].on <=> (fin.cfg.START_SERVER \/ fin.P # {}))

(* START_SERVER is off and a process is found: the supervisor adopts it    *)
C23_Witness ==
    /\ Called /\ ~fout[1].exc
    /\ ~fin.cfg.START_SERVER /\ fin.P # {} /\ fout[1].on

(* C32: the uptime the restart group is planned from is the age of the     *)
(* earliest-created process among those listed, the one culling keeps;     *)
(* without an uptime no restart event is entered and the group is empty.   *)
C32_UptimeOfSurvivor ==
    (Called /\ ~fout[1].exc) =>
        LET v == fout[1]
            listed == {p \in v.P : p.pid \in Range(v.snap)}
        IN /\ v.up # NoUptime =>
                 /\ listed # {}
                 /\ v.up = (CHOOSE p \in listed : \A q \in listed : p.ct <= q.ct).age
           /\ v.up = NoUptime =>
                 /\ v.revs = << >>
                 /\ \A e \in v.q : e.act \notin {"warn", "restart"}

----------------------------------------------------------------------------
(* The warning as text: SpecWarn calls _restartWarning for every number of *)
(* minutes up to MaxMinutes and keeps the command it hands to sendCommand. *)

RECURSIVE str(_)
str(n) ==
    IF n < 10 THEN SubSeq("0123456789", n + 1, n + 1)
    ELSE str(n \div 10) \o SubSeq("0123456789", (n % 10) + 1, (n % 10) + 1)

(* a variant without the singular *)
WarningTextPlural(minutes) ==
    "say An automated restart will occur in " \o str(minutes) \o " minutes."

WarningText(minutes) ==
    IF minutes = 1 THEN "say An automated restart will occur in 1 minute."
    ELSE "say An automated restart will occur in " \o str(minutes) \o " minutes."

WarnInit ==
    /\ Parked
    /\ lockOwner = [s \in Servers |-> "none"]
    /\ lockCount = [s \in Servers |-> 0]
    /\ thr = [t \in Threads |-> "idle"]
    /\ qBusy = {}
    /\ fin \in 0..MaxMinutes
    /\ fout = << >>

WarnCall ==
    /\ fout = << >>
    /\ fout' = << WarningText(fin) >>
    /\ UNCHANGED <<main, lockOwner, lockCount, thr, qBusy, fin>>

SpecWarn == WarnInit /\ [][WarnCall]_vars

(* C27: the warning for one minute is the singular sentence, and for any   *)
(* other number N the plural sentence with N in decimal.                   *)
C27_WarningText ==
    Called =>
        fout[1] = IF fin = 1 THEN "say An automated restart will occur in 1 minute."
                  ELSE "say An automated restart will occur in " \o ToString(fin)
                           \o " minutes."

(* the three warnings of a restart group: ten, five and one minute         *)
C27_Witness ==
    /\ Called
    /\ \/ fin = 10 /\ fout[1] = "say An automated restart will occur in 10 minutes."
       \/ fin = 5 /\ fout[1] = "say An automated restart will occur in 5 minutes."
       \/ fin = 1 /\ fout[1] = "say An automated restart will occur in 1 minute."

----------------------------------------------------------------------------
(* The transcriber.  SpecChat delivers file-system events of the server's  *)
(* directory to the FMLLogHandler and keeps the transcript chatlog.txt in  *)
(* fout, a sequence of the entries written; fin holds the last event.  A   *)
(* log line is what the regular expressions see of it: whether a colour    *)
(* code precedes its text, whether its text begins with a date and time,   *)
(* and the tag after [INFO] (a chat line names MyTown or Dynmap, a console *)
(* broadcast Minecraft-Server followed by [Server]).  An entry written for *)
(* line i of the rotated file is identified by i.  Files are UTF-8.        *)

(* the tags of the lines tried: Dynmap lines are matched as MyTown lines are *)
Tags == {"MyTown", "Minecraft-Server", "FML"}

Lines == [colour : BOOLEAN, ts : BOOLEAN, tag : Tags]

(* the rotated files tried *)
Files == SeqsUpTo(Lines, MaxLines)

Paths == {"ForgeModLoader-server-0.log", "ForgeModLoader-server-1.log", "server.log"}

(* re.match of the date pattern on the first line as read *)
FirstLineMatch(l) == l.ts /\ ~l.colour

(* colourRegEx.sub, then chatRegEx.match, then broadcastRegEx.match *)
Kind(l) ==
    IF l.ts /\ l.tag \in {"MyTown", "Dynmap"} THEN "chat"
    ELSE IF l.ts /\ l.tag = "Minecraft-Server" THEN "broadcast"
    ELSE "skip"

(* the while loop from line i to the end of the file *)
RECURSIVE Extract(_, _)
Extract(f, i) ==
    IF i > Len(f) THEN << >>
    ELSE (IF Kind(f[i]) = "skip" THEN << >> ELSE << [k |-> Kind(f[i]), i |-> i] >>)
             \o Extract(f, i + 1)

(* what one call writes: the banner and the loop are both under "if match" *)
Pass(f) ==
    IF Len(f) = 0 THEN << >>
    ELSE IF FirstLineMatch(f[1]) THEN << [k |-> "banner", i |-> 1] >> \o Extract(f, 2)
    ELSE << >>

(* PatternMatchingEventHandler hands over the events in which a path       *)
(* matches the handler's pattern                                           *)
Dispatched(src, dest) ==
    "ForgeModLoader-server-0.log" \in {src, dest}

(* a variant that opens the transcript for writing *)
on_movedTruncating(t, dest, f) ==
    IF dest = "ForgeModLoader-server-1.log" THEN Pass(f) ELSE t

(* on_moved: chatlog.txt is opened in mode 'a' *)
on_moved(t, dest, f) ==
    IF dest = "ForgeModLoader-server-1.log" THEN t \o Pass(f) ELSE t

ChatInit ==
    /\ Parked
    /\ lockOwner = [s \in Servers |-> "none"]
    /\ lockCount = [s \in Servers |-> 0]
    /\ thr = [t \in Threads |-> "idle"]
    /\ qBusy = {}
    /\ fin = [n |-> 0, ev |-> "none", src |-> "none", dest |-> "none", file |-> << >>,
              was |-> 0]
    /\ fout = << >>

(* a file is renamed; f is ForgeModLoader-server-1.log as the handler      *)
(* finds it                                                                *)
Moved(src, dest, f) ==
    /\ fin.n < MaxMoves /\ src # dest
    /\ fout' = IF Dispatched(src, dest) THEN on_moved(fout, dest, f) ELSE fout
    /\ fin' = [n |-> fin.n + 1, ev |-> "moved", src |-> src, dest |-> dest,
               file |-> f, was |-> Len(fout)]
    /\ UNCHANGED <<main, lockOwner, lockCount, thr, qBusy>>

(* a file is created, written or deleted: the handler has no method for it *)
Touched(path) ==
    /\ fin.n < MaxMoves
    /\ fin' = [n |-> fin.n + 1, ev |-> "touched", src |-> path, dest |-> "none",
               file |-> << >>, was |-> Len(fout)]
    /\ UNCHANGED <<main, lockOwner, lockCount, thr, qBusy, fout>>

ChatNext ==
    \/ \E src \in Paths, dest \in Paths :
          \E f \in IF Dispatched(src, dest) /\ dest = "ForgeModLoader-server-1.log"
                    THEN Files ELSE {<< >>} :
             Moved(src, dest, f)
    \/ \E path \in Paths : Touched(path)

SpecChat == ChatInit /\ [][ChatNext]_vars

(* the last event is the rotation of the log *)
Rotated ==
    /\ fin.ev = "moved"
    /\ fin.src = "ForgeModLoader-server-0.log"
    /\ fin.dest = "ForgeModLoader-server-1.log"

Written == SubSeq(fout, fin.was + 1, Len(fout))

(* C28: a rotation writes the banner exactly if the first line of the      *)
(* rotated file begins with a date and time, and then, whether or not the  *)
(* banner was written, one entry for each later line that is a chat line   *)
(* or a console broadcast, in the order of the file, and nothing else.     *)
C28_EveryLaterLineExtracted ==
    Rotated =>
        LET f == fin.file
            banner == Len(f) > 0 /\ f[1].ts /\ ~f[1].colour
            rest == IF banner THEN Tail(Written) ELSE Written
        IN /\ banner => (Len(Written) > 0 /\ Written[1].k = "banner")
           /\ \A j \in DOMAIN rest : rest[j].k # "banner"
           /\ {rest[j].i : j \in DOMAIN rest}
                  = {i \in 2..Len(f) :
                        f[i].ts /\ f[i].tag \in {"MyTown", "Dynmap", "Minecraft-Server"}}
           /\ \A j \in DOMAIN rest :
                 /\ rest[j].k = (IF f[rest[j].i].tag = "Minecraft-Server"
                                 THEN "broadcast" ELSE "chat")
                 /\ j > 1 => rest[j - 1].i < rest[j].i

----------------------------------------------------------------------------
(* Shutdown.  SpecExit follows the main thread (asleep in the scheduler,   *)
(* waiting for a supervisor's lock, or inside a callback with the lock     *)
(* held), the console thread, one transcriber and the signal handler       *)
(* Pycraft.stop, which Python runs in the main thread between two of its   *)
(* bytecodes, not while it waits for a lock.  fin names the console class: *)
(* the StdinListener of pycraft.py, which Pycraft.init instantiates and    *)
(* which reads with raw_input, or the one of stdinListener.py, which polls *)
(* with select.  fout holds the stop flag, the pending signal, the         *)
(* handler's position, the transcriber, the command read, and what the     *)
(* console has done: exits counts the exit commands handled, sent says the *)
(* last of them sent the signal, late that a command was read after the    *)
(* flag was set.                                                           *)

Commands == {"exit", "help", "stop"}

ExitInit ==
    /\ Parked
    /\ lockOwner = [s \in Servers |-> "none"]
    /\ lockCount = [s \in Servers |-> 0]
    /\ thr = [main |-> "sleep", console |-> "test"]
    /\ qBusy = {}
    /\ fin \in {"pycraft", "stdinListener"}
    /\ fout = [stopping |-> FALSE, signal |-> FALSE, handler |-> "none",
               observer |-> "running", cmd |-> "none", exits |-> 0, sent |-> FALSE,
               late |-> FALSE]

(* the operating system delivers SIGTERM, SIGINT, SIGHUP or SIGQUIT *)
Signal ==
    /\ ~fout.signal /\ fout.handler = "none"
    /\ fout' = [fout EXCEPT !.signal = TRUE]
    /\ UNCHANGED <<main, lockOwner, lockCount, thr, qBusy, fin>>

(* Pycraft.stop: stop() of the transcriber and of the console, join() of   *)
(* the transcriber, join() of the console, sys.exit(0)                     *)
Handler ==
    /\ \/ /\ fout.signal /\ fout.handler = "none"
          /\ thr["main"] \in {"sleep", "callback"}
          /\ fout' = [fout EXCEPT !.signal = FALSE, !.handler = "stop"]
       \/ /\ fout.handler = "stop"
          /\ fout' = [fout EXCEPT !.observer = "stopping", !.stopping = TRUE,
                                  !.handler = "joinObserver"]
       \/ /\ fout.handler = "joinObserver" /\ fout.observer = "ended"
          /\ fout' = [fout EXCEPT !.handler = "joinConsole"]
       \/ /\ fout.handler = "joinConsole" /\ thr["console"] = "ended"
          /\ fout' = [fout EXCEPT !.handler = "exited"]
    /\ UNCHANGED <<main, lockOwner, lockCount, thr, qBusy, fin>>

(* the transcriber's thread sees that it was told to stop *)
ObserverEnds ==
    /\ fout.observer = "stopping"
    /\ fout' = [fout EXCEPT !.observer = "ended"]
    /\ UNCHANGED <<main, lockOwner, lockCount, thr, qBusy, fin>>

(* run(): an event is due, its callback takes the lock, and returns *)
MainStep ==
    /\ fout.handler = "none"
    /\ \/ /\ thr["main"] = "sleep"
          /\ thr' = [thr EXCEPT !["main"] = "acq"]
          /\ UNCHANGED <<lockOwner, lockCount>>
       \/ /\ thr["main"] = "acq" /\ lockOwner["test"] = "none"
          /\ thr' = [thr EXCEPT !["main"] = "callback"]
          /\ lockOwner' = [lockOwner EXCEPT !["test"] = "main"]
          /\ lockCount' = [lockCount EXCEPT !["test"] = 1]
       \/ /\ thr["main"] = "callback"
          /\ thr' = [thr EXCEPT !["main"] = "sleep"]
          /\ lockOwner' = [lockOwner EXCEPT !["test"] = "none"]
          /\ lockCount' = [lockCount EXCEPT !["test"] = 0]
    /\ UNCHANGED <<main, qBusy, fin, fout>>

(* a line arrives on standard input: select reports it, or raw_input       *)
(* returns it                                                              *)
ConsoleInput(c) ==
    /\ thr["console"] \in {"select", "raw_input"}
    /\ thr' = [thr EXCEPT !["console"] = "cmd"]
    /\ fout' = [fout EXCEPT !.cmd = c, !.late = @ \/ fout.stopping]
    /\ UNCHANGED <<main, lockOwner, lockCount, qBusy, fin>>

(* StdinListener.run: the loop test, the poll timing out, the dispatch of  *)
(* the command read, and a command waiting for, holding and leaving the    *)
(* supervisor's lock                                                       *)
ConsoleStep ==
    /\ \/ /\ thr["console"] = "test"
          /\ thr' = [thr EXCEPT !["console"] =
                         IF fout.stopping THEN "ended"
                         ELSE IF fin = "stdinListener" THEN "select" ELSE "raw_input"]
          /\ UNCHANGED <<lockOwner, lockCount, fout>>
       \/ /\ thr["console"] = "select"
          /\ thr' = [thr EXCEPT !["console"] = "test"]
          /\ UNCHANGED <<lockOwner, lockCount, fout>>
       \/ /\ thr["console"] = "cmd" /\ fout.cmd = "exit"
          /\ thr' = [thr EXCEPT !["console"] = "test"]
          /\ fout' = IF fin = "stdinListener"
                     THEN [fout EXCEPT !.cmd = "none", !.exits = 1, !.sent = TRUE,
                                       !.signal = @ \/ fout.handler = "none",
                                       !.stopping = TRUE]
                     ELSE [fout EXCEPT !.cmd = "none", !.exits = 1, !.sent = FALSE]
          /\ UNCHANGED <<lockOwner, lockCount>>
       \/ /\ thr["console"] = "cmd" /\ fout.cmd = "help"
          /\ thr' = [thr EXCEPT !["console"] = "test"]
          /\ fout' = [fout EXCEPT !.cmd = "none"]
          /\ UNCHANGED <<lockOwner, lockCount>>
       \/ /\ thr["console"] = "cmd" /\ fout.cmd = "stop"
          /\ thr' = [thr EXCEPT !["console"] = "acq"]
          /\ fout' = [fout EXCEPT !.cmd = "none"]
          /\ UNCHANGED <<lockOwner, lockCount>>
       \/ /\ thr["console"] = "acq" /\ lockOwner["test"] = "none"
          /\ thr' = [thr EXCEPT !["console"] = "op"]
          /\ lockOwner' = [lockOwner EXCEPT !["test"] = "console"]
          /\ lockCount' = [lockCount EXCEPT !["test"] = 1]
          /\ UNCHANGED fout
       \/ /\ thr["console"] = "op"
          /\ thr' = [thr EXCEPT !["console"] = "test"]
          /\ lockOwner' = [lockOwner EXCEPT !["test"] = "none"]
          /\ lockCount' = [lockCount EXCEPT !["test"] = 0]
          /\ UNCHANGED fout
    /\ UNCHANGED <<main, qBusy, fin>>

ExitNext ==
    \/ Signal
    \/ Handler
    \/ ObserverEnds
    \/ MainStep
    \/ \E c \in Commands : ConsoleInput(c)
    \/ ConsoleStep

(* every thread that can run does; signals and typed lines come when they  *)
(* come                                                                    *)
SpecExit ==
    /\ ExitInit /\ [][ExitNext]_vars
    /\ SF_vars(Handler) /\ WF_vars(ObserverEnds) /\ WF_vars(MainStep)
    /\ SF_vars(ConsoleStep)

(* C24: a signal delivered to the process leads to Pycraft.stop running to *)
(* its end: the transcriber and the console told to stop, both joins       *)
(* returned, sys.exit(0) reached.                                          *)
C24_SignalLeadsToExit == fout.signal ~> fout.handler = "exited"

(* C30: an exit command handled has sent the signal and set the stop flag; *)
(* with the stop flag set the console is not in a read without a timeout,  *)
(* and no command is read after the flag was set.                          *)
C30_ExitStopsConsole ==
    /\ fout.exits > 0 => (fout.sent /\ fout.stopping)
    /\ fout.stopping => thr["console"] # "raw_input"
    /\ ~fout.late

----------------------------------------------------------------------------
(* The console's dispatch: SpecLine hands one typed line (a verb and the   *)
(* words after it) to the loop of StdinListener.run, for every constructed *)
(* supervisor.                                                             *)

Verbs == {"start", "stop", "restart", "status"}

TypedNicks == {"test", "nope"}

(* a variant that falls back on the first supervisor *)
getServerInstanceOrFirst(nick) == CHOOSE s \in Servers : TRUE

(* getServerInstance: the supervisor whose SERVER_NICK is nick, or None *)
getServerInstance(nick) == IF nick \in Servers THEN nick ELSE "none"

(* the status command: getTargetState, isOnline, isResponsive *)
status(w) ==
    Bind(getPIDs(L(w, "call:status", IF w.on THEN 1 ELSE 0)),
         LAMBDA v : {isResponsive(v, r) : r \in ProbeResults})

Dispatch(w, verb, args) ==
    IF Len(args) # 1 THEN {L(w, "help", 0)}
    ELSE IF getServerInstance(args[1]) = "none" THEN {L(w, "notfound", 0)}
    ELSE CASE verb = "start" -> start(w)
           [] verb = "stop" -> stop(w)
           [] verb = "restart" -> restart(w)
           [] verb = "status" -> status(w)

LineInit ==
    /\ Parked
    /\ lockOwner = [s \in Servers |-> "none"]
    /\ lockCount = [s \in Servers |-> 0]
    /\ thr = [t \in Threads |-> "idle"]
    /\ qBusy = {}
    /\ fin \in [verb : Verbs, args : SeqsUpTo(TypedNicks, 2), w : Built]
    /\ fout = << >>

LineCall ==
    /\ fout = << >>
    /\ \E v \in Dispatch(fin.w, fin.verb, fin.args) : fout' = << v >>
    /\ UNCHANGED <<main, lockOwner, lockCount, thr, qBusy, fin>>

SpecLine == LineInit /\ [][LineCall]_vars

(* the line does not name a configured server with exactly one word *)
BadLine == Len(fin.args) # 1 \/ fin.args[1] \notin Servers

(* C31: a start, stop, restart or status line with no argument, with more  *)
(* than one, or with a nick that is not configured calls no method that    *)
(* acts on a supervisor and leaves desired state, restart group, queue,    *)
(* processes and session as they were: it only prints.                     *)
C31_BadLineDoesNothing ==
    (Called /\ BadLine) =>
        LET v == fout[1]
        IN /\ v.on = fin.w.on /\ v.revs = fin.w.revs /\ v.q = fin.w.q
           /\ v.P = fin.w.P /\ v.la = fin.w.la /\ v.el = fin.w.el /\ ~v.exc
           /\ Len(v.log) = Len(fin.w.log) + 1
           /\ v.log[Len(v.log)].k \in {"help", "notfound"}

(* "stop nope" on a supervisor that is online with a restart group *)
C31_Witness ==
    /\ Called /\ fin.verb = "stop" /\ fin.args = << "nope" >>
    /\ fin.w.on /\ Len(fin.w.revs) > 0
    /\ fout[1].log[Len(fout[1].log)].k = "notfound"

====
